---- MODULE Spec2Model ----
(***************************************************************************)
(* Model of the DaikinApi class of homebridge-daikin-oneplus               *)
(* (src/src/daikinapi.ts, lines 1-749): the device cache, the refresh      *)
(* scheduler, the read pass (getData) and the write pipeline (setters and  *)
(* putRequest), driven by the platform (Initialize until initialized) and  *)
(* by the accessories (updateNow and the setters).                         *)
(*                                                                         *)
(* Time is the monotonic clock in milliseconds.  Every network call is a   *)
(* suspension point: a call action issues the request, a response action   *)
(* runs the continuation up to the next await.  Spec is the class as the    *)
(* plugin drives it, with a token that outlives the time horizon; SpecApi  *)
(* is the class driven through its public methods by any client, with      *)
(* tokens that expire; SpecPure draws a cache and applies the accessors    *)
(* and the merge; SpecSub adds the subscribers and partial documents;      *)
(* SpecPoll is the class left to its background timer, with fairness;      *)
(* SpecSched follows the scheduler over a longer horizon; SpecThrow has a  *)
(* subscriber that throws; SpecHeat adds the emergency heat switch and the *)
(* thermostat's target state handler; SpecMode notes the mode that         *)
(* setTargetState was called with; SpecRace lets a write succeed while a   *)
(* read is awaited; SpecSlow has responses slower than the foreground      *)
(* interval; SpecNow notes what updateNow() promised; SpecTrip calls every *)
(* setter with either value and notes the latest successful one.           *)
(***************************************************************************)
EXTENDS Integers, Sequences, FiniteSets, TLC

(* ------------------------------ bounds --------------------------------- *)
TickMs == 5000
MaxTimeMs == 10000
MaxInflight == 1
MaxReads == 1
MaxCalls == 3
MaxPlainCalls == 1
MaxLagTicks == 1
\* accessTokenExpiresIn of a token response, in seconds
LongLifetimeS == 3600
ShortLifetimeS == 365
\* invocations of one callback for one device
MaxInvocations == 2
\* the horizon of the clock when nothing but the background poll moves it
MaxPollTimeMs == 400000
\* the horizon of the clock for the scheduler by itself
MaxSchedTimeMs == 40000
\* slow responses: the ticks a response may be awaited, the read passes
\* followed at a time and the horizon of the clock
MaxSlowTicks == 2
MaxOverlap == 2
MaxSlowTimeMs == 25000

(* ------------------------- program constants --------------------------- *)
DAIKIN_DEVICE_WRITE_DELAY_MS == 15000
DAIKIN_DEVICE_BACKGROUND_REFRESH_MS == 180000
DAIKIN_DEVICE_FOREGROUND_REFRESH_MS == 10000

OFF == 0
HEAT == 1
COOL == 2
AUTO == 3
EMERGENCY_HEAT == 4
\* a mode value the enum does not know (the API may return one)
UNKNOWN_MODE == 5

\* JavaScript undefined, for optional numbers
\* TemperatureUnit and FanCirculateMode.OFF
FAHRENHEIT == 0
CELSIUS == 1
FanCirculateOff == 0

Undefined == -1
\* _updateTimeout with no pending timer, and the -1 of _nextUpdateTimeMs
NoTimer == -1

NoToken == "none"
Token == "token"

(* ------------------------------ inputs --------------------------------- *)
DeviceIds == {"d1", "d2"}
\* what the /devices endpoint may answer (in Map insertion order)
DeviceLists == {<< >>, <<"d2">>, <<"d1", "d2">>}
\* the device the accessories write to: registered or not, as the list has it
SetterTargets == {"d1"}
\* the callbacks a client subscribes
Callbacks == {"cb"}

EmptyDoc == [f \in {} |-> 0]

Doc(m, se) ==
  [mode |-> m, hspHome |-> 20, hspActive |-> 20, cspHome |-> 25, cspActive |-> 25,
   schedEnabled |-> se, schedOverride |-> 0, humSP |-> 40, geofencingAway |-> FALSE,
   oneCleanFanActive |-> FALSE, fanCirculate |-> 2, fanCirculateSpeed |-> 0, units |-> 0]

\* what the /deviceData endpoint may answer
Documents == {Doc(AUTO, TRUE), Doc(OFF, FALSE), Doc(UNKNOWN_MODE, FALSE)}
\* the second device only ever reports one document
DocumentsOf(d) == IF d = "d1" THEN Documents ELSE {Doc(OFF, FALSE)}

TargetInputs == {Undefined, 22}
HeatInputs == {Undefined, 21}
CoolInputs == {Undefined, 26}
ModeInputs == {OFF, HEAT, COOL, AUTO, EMERGENCY_HEAT}
HumidityInputs == {45}
OnOffInputs == {TRUE}
SpeedInputs == {-1}
UnitInputs == {1}

(* ------------------------------ helpers -------------------------------- *)
Max(a, b) == IF a >= b THEN a ELSE b

Min(S) == CHOOSE x \in S : \A y \in S : x <= y

RemoveAt(s, i) == [j \in 1..(Len(s) - 1) |-> IF j < i THEN s[j] ELSE s[j + 1]]

\* object spread { ...a, ...b }
Spread_dropsEqual(a, b) ==
  [f \in ((DOMAIN a) \cup (DOMAIN b)) \ {g \in (DOMAIN a) \cap (DOMAIN b) : a[g] = b[g]} |->
     IF f \in DOMAIN b THEN b[f] ELSE a[f]]

Spread(a, b) ==
  [f \in (DOMAIN a) \cup (DOMAIN b) |-> IF f \in DOMAIN b THEN b[f] ELSE a[f]]

\* JavaScript !x for an optional number
Falsy(x) == x = Undefined \/ x = 0

NoData == [hasData |-> FALSE, data |-> EmptyDoc]

\* no entry in _pendingThresholds, or the entry {} that get-or-create leaves
NoPending == [heat |-> Undefined, cool |-> Undefined]

\* data.f, undefined when the object has no such field
Field(data, f) == IF f \in DOMAIN data THEN data[f] ELSE Undefined

(* --------------------------- cache primitive --------------------------- *)
_updateCache_upsert(devs, deviceId, partialUpdate) ==
  IF deviceId \notin DOMAIN devs
    THEN [d \in (DOMAIN devs) \cup {deviceId} |->
            IF d = deviceId THEN [hasData |-> TRUE, data |-> partialUpdate] ELSE devs[d]]
    ELSE [devs EXCEPT ![deviceId] =
            [hasData |-> TRUE, data |-> Spread(devs[deviceId].data, partialUpdate)]]

_updateCache_replaces(devs, deviceId, partialUpdate) ==
  IF deviceId \notin DOMAIN devs
    THEN devs
    ELSE [devs EXCEPT ![deviceId] = [hasData |-> TRUE, data |-> partialUpdate]]

\* the spread written the other way round: what the cache holds wins
_updateCache_keepsCached(devs, deviceId, partialUpdate) ==
  IF deviceId \notin DOMAIN devs
    THEN devs
    ELSE [devs EXCEPT ![deviceId] =
            [hasData |-> TRUE, data |-> Spread(partialUpdate, devs[deviceId].data)]]

_updateCache(devs, deviceId, partialUpdate) ==
  IF deviceId \notin DOMAIN devs
    THEN devs
    ELSE [devs EXCEPT ![deviceId] =
            [hasData |-> TRUE, data |-> Spread(devs[deviceId].data, partialUpdate)]]

(* ------------------------------ scheduler ------------------------------ *)
\* s = [next |-> _nextUpdateTimeMs, floor |-> _noUpdateBeforeMs, timer |-> _updateTimeout,
\*      pending |-> timers]
\* clearTimeout(this._updateTimeout) takes the timer of the handle out of the
\* pending ones, setTimeout adds the new one
_updateIn_noClear(s, nowMs, nextUpdateMs) ==
  [s EXCEPT !.timer = nowMs + nextUpdateMs, !.next = nowMs + nextUpdateMs,
            !.pending = s.pending \cup {nowMs + nextUpdateMs}]

_updateIn(s, nowMs, nextUpdateMs) ==
  [s EXCEPT !.timer = nowMs + nextUpdateMs, !.next = nowMs + nextUpdateMs,
            !.pending = (s.pending \ {s.timer}) \cup {nowMs + nextUpdateMs}]

AsapDelayMs_alwaysWaits(nowMs, lastUpdateTimeMs, noUpdateBeforeMs) ==
  LET sinceLastUpdateMs == nowMs - lastUpdateTimeMs
      minUntilNextUpdateMs == noUpdateBeforeMs - nowMs
  IN  Max(DAIKIN_DEVICE_FOREGROUND_REFRESH_MS,
          Max(minUntilNextUpdateMs, DAIKIN_DEVICE_FOREGROUND_REFRESH_MS - sinceLastUpdateMs))

AsapDelayMs_noSpacing(nowMs, lastUpdateTimeMs, noUpdateBeforeMs) ==
  LET minUntilNextUpdateMs == noUpdateBeforeMs - nowMs
  IN  IF minUntilNextUpdateMs <= 0 THEN 0 ELSE minUntilNextUpdateMs

AsapDelayMs_noFloor(nowMs, lastUpdateTimeMs, noUpdateBeforeMs) ==
  LET sinceLastUpdateMs == nowMs - lastUpdateTimeMs
  IN  IF sinceLastUpdateMs > DAIKIN_DEVICE_FOREGROUND_REFRESH_MS
        THEN 0
        ELSE DAIKIN_DEVICE_FOREGROUND_REFRESH_MS - sinceLastUpdateMs

\* the delay _scheduleAsap hands to _updateIn
AsapDelayMs(nowMs, lastUpdateTimeMs, noUpdateBeforeMs) ==
  LET sinceLastUpdateMs == nowMs - lastUpdateTimeMs
      minUntilNextUpdateMs == noUpdateBeforeMs - nowMs
  IN  IF sinceLastUpdateMs > DAIKIN_DEVICE_FOREGROUND_REFRESH_MS
        THEN IF minUntilNextUpdateMs <= 0 THEN 0 ELSE minUntilNextUpdateMs
        ELSE Max(minUntilNextUpdateMs, DAIKIN_DEVICE_FOREGROUND_REFRESH_MS - sinceLastUpdateMs)

_scheduleAsap(s, nowMs, lastUpdateTimeMs) ==
  _updateIn(s, nowMs, AsapDelayMs(nowMs, lastUpdateTimeMs, s.floor))

\* blockUntilMs after the if/else chain of _scheduleFuture
FutureBlockMs(blockUntilMs) ==
  IF Falsy(blockUntilMs) THEN DAIKIN_DEVICE_FOREGROUND_REFRESH_MS
  ELSE IF blockUntilMs < DAIKIN_DEVICE_FOREGROUND_REFRESH_MS THEN DAIKIN_DEVICE_FOREGROUND_REFRESH_MS
  ELSE blockUntilMs

\* nextUpdateInMs after the if/else chain of _scheduleFuture
FutureNextMs(blockUntilMs) ==
  IF Falsy(blockUntilMs) THEN DAIKIN_DEVICE_BACKGROUND_REFRESH_MS
  ELSE IF blockUntilMs < DAIKIN_DEVICE_FOREGROUND_REFRESH_MS THEN DAIKIN_DEVICE_FOREGROUND_REFRESH_MS
  ELSE IF blockUntilMs = DAIKIN_DEVICE_WRITE_DELAY_MS THEN DAIKIN_DEVICE_WRITE_DELAY_MS
  ELSE DAIKIN_DEVICE_BACKGROUND_REFRESH_MS

_scheduleFuture_always(s, nowMs, blockUntilMs) ==
  LET block == FutureBlockMs(blockUntilMs)
      nextUpdateInMs == FutureNextMs(blockUntilMs)
      s1 == [s EXCEPT !.floor = nowMs + block]
  IN  _updateIn(s1, nowMs, IF block > nextUpdateInMs THEN block ELSE nextUpdateInMs)

_scheduleFuture(s, nowMs, blockUntilMs) ==
  LET block == FutureBlockMs(blockUntilMs)
      nextUpdateInMs == FutureNextMs(blockUntilMs)
      s1 == [s EXCEPT !.floor = nowMs + block]
      scheduledRunInMs == s.next - nowMs
  IN  IF s.next = -1 \/ block > scheduledRunInMs
        THEN _updateIn(s1, nowMs, IF block > nextUpdateInMs THEN block ELSE nextUpdateInMs)
        ELSE s1

(* ------------------------------- state --------------------------------- *)
VARIABLES
  now,                  \* _monotonic_clock_ms()
  _token,
  _tokenExpiration,     \* ms on the clock of now; the wall clock and the monotonic clock advance together
  _isInitialized,
  _devices,             \* id -> [hasData, data]
  deviceOrder,          \* insertion order of the _devices Map
  _lastUpdateTimeMs,
  _nextUpdateTimeMs,
  _noUpdateBeforeMs,
  _updateTimeout,       \* fire time of the timer the handle stands for, NoTimer once it has fired
  timers,               \* fire times of the timers that are pending (set and neither fired nor cleared)
  _lastReadFinishTimeMs,
  _listeners,           \* id -> set of callbacks
  called,               \* id -> callback -> times the callback was invoked for the id
  _pendingThresholds,   \* id -> [heat, cool], NoPending when absent or empty
  _emergencyHeatEnabled, \* id -> flag, FALSE when the Map has no entry
  requestedMode,        \* id -> the mode of the latest setTargetState call that was noted, Undefined when none
  promised,             \* the updateNow() call that was noted and what it promised, NoPromise when none
  lastSet,              \* id -> the setter whose request was noted as the latest to succeed, and the value it was called with
  initPc,               \* where Initialize() is suspended
  reads,                \* getData passes in flight: [idx, init]
  writes,               \* PUT requests in flight
  calls,                \* number of setter calls made so far
  plainCalls,           \* number of those that went straight to putRequest
  event,                \* the step just taken, as seen at the public boundary
  writeOkAt,            \* time of the latest successful write, -1 when none
  sentOk,               \* id -> fields of the latest successful write not yet followed by a read of id
  modeCalled,           \* ids for which setTargetState was called since sentOk[id] was set
  lag,                  \* ticks the requests now in flight have been waited for
  outlived              \* ids whose pending threshold was set before another setter ran for the id

vars == <<now, lastSet, promised, requestedMode, _emergencyHeatEnabled, _listeners, called, _lastReadFinishTimeMs, _token, _tokenExpiration, _isInitialized, _devices, deviceOrder, _lastUpdateTimeMs,
          _nextUpdateTimeMs, _noUpdateBeforeMs, _updateTimeout, timers, _pendingThresholds,
          initPc, reads, writes, calls, plainCalls, event, writeOkAt, sentOk, modeCalled, lag, outlived>>

schedVars == <<_nextUpdateTimeMs, _noUpdateBeforeMs, _updateTimeout, timers>>

Sched == [next |-> _nextUpdateTimeMs, floor |-> _noUpdateBeforeMs, timer |-> _updateTimeout,
          pending |-> timers]

SetSched(s) ==
  /\ _nextUpdateTimeMs' = s.next
  /\ _noUpdateBeforeMs' = s.floor
  /\ _updateTimeout' = s.timer
  /\ timers' = s.pending

Ev(op, dev, caller, ret, put, args, req) ==
  [op |-> op, dev |-> dev, caller |-> caller, ret |-> ret, put |-> put, args |-> args, req |-> req]

Quiet(op) == Ev(op, "", "", "none", FALSE, << >>, EmptyDoc)

\* no successful setter has been noted
NoSetter == [caller |-> "", asked |-> Undefined]

\* no updateNow() call has been noted
NoPromise == [made |-> FALSE, at |-> 0, due |-> 0, last |-> 0, busy |-> FALSE]

Init ==
  /\ now = 0
  /\ _token = NoToken
  /\ _tokenExpiration = 0
  /\ _isInitialized = FALSE
  /\ _devices = [d \in {} |-> NoData]
  /\ deviceOrder = << >>
  /\ _lastUpdateTimeMs = -1
  /\ _nextUpdateTimeMs = -1
  /\ _noUpdateBeforeMs = 0
  /\ _updateTimeout = NoTimer
  /\ timers = {}
  /\ _lastReadFinishTimeMs = -1
  /\ _listeners = [d \in DeviceIds |-> {}]
  /\ called = [d \in DeviceIds |-> [cb \in Callbacks |-> 0]]
  /\ _pendingThresholds = [d \in DeviceIds |-> NoPending]
  /\ _emergencyHeatEnabled = [d \in DeviceIds |-> FALSE]
  /\ requestedMode = [d \in DeviceIds |-> Undefined]
  /\ promised = NoPromise
  /\ lastSet = [d \in DeviceIds |-> NoSetter]
  /\ initPc = "idle"
  /\ reads = << >>
  /\ writes = << >>
  /\ calls = 0
  /\ plainCalls = 0
  /\ event = Quiet("init")
  /\ writeOkAt = -1
  /\ sentOk = [d \in DeviceIds |-> EmptyDoc]
  /\ modeCalled = {}
  /\ lag = 0
  /\ outlived = {}

\* a network request is in flight
Busy == reads # << >> \/ writes # << >>

(* ------------------------------ the clock ------------------------------ *)
\* A due timer fires before the clock moves on.  The origin of the clock is
\* arbitrary and nothing reads it before the first getData() completes, so
\* the clock is started when Initialize() has succeeded.
AdvanceWhile(horizonMs, maxLagTicks) ==
  /\ _isInitialized
  /\ now + TickMs <= horizonMs
  /\ \A t \in timers : now + TickMs <= t
  /\ Busy => lag < maxLagTicks
  /\ lag' = IF Busy THEN lag + 1 ELSE 0
  /\ now' = now + TickMs
  /\ event' = Quiet("tick")
  /\ UNCHANGED <<lastSet, promised, requestedMode, _emergencyHeatEnabled, _listeners, called, _lastReadFinishTimeMs,
                 _token, _tokenExpiration, _isInitialized, _devices, deviceOrder, _lastUpdateTimeMs,
                 _nextUpdateTimeMs, _noUpdateBeforeMs, _updateTimeout, timers, _pendingThresholds,
                 initPc, reads, writes, calls, plainCalls, writeOkAt, sentOk, modeCalled, outlived>>

\* a response is awaited for MaxLagTicks ticks at most
Advance(horizonMs) == AdvanceWhile(horizonMs, MaxLagTicks)

Tick == Advance(MaxTimeMs)

(* ------------------------------ the token ------------------------------ *)
\* setToken: the expiry is set 2 * DAIKIN_DEVICE_BACKGROUND_REFRESH_MS early
TokenExpiry(nowMs, accessTokenExpiresIn) ==
  nowMs + (accessTokenExpiresIn - (DAIKIN_DEVICE_BACKGROUND_REFRESH_MS \div 1000) * 2) * 1000

Cred == [token |-> _token, exp |-> _tokenExpiration]

\* getToken and refreshToken once the response is in: setToken on success,
\* a failure is logged
AuthResult_failureClears(cred, ok, nowMs, accessTokenExpiresIn) ==
  IF ok THEN [token |-> Token, exp |-> TokenExpiry(nowMs, accessTokenExpiresIn)]
  ELSE [token |-> NoToken, exp |-> 0]

AuthResult(cred, ok, nowMs, accessTokenExpiresIn) ==
  IF ok THEN [token |-> Token, exp |-> TokenExpiry(nowMs, accessTokenExpiresIn)]
  ELSE cred

SetCred(c) ==
  /\ _token' = c.token
  /\ _tokenExpiration' = c.exp

\* getRequest: new Date() >= this._tokenExpiration
Expired(nowMs, exp) == nowMs >= exp

\* getRequest up to its first await: the refresh when the token has expired,
\* no request without a token, the fetch otherwise
GetRequestPc(nowMs, cred) ==
  IF Expired(nowMs, cred.exp) THEN "refresh"
  ELSE IF cred.token = NoToken THEN "abort"
  ELSE "fetch"

\* a not-expired credential is a token: the "abort" of GetRequestPc is dead
\* and a request aborts only after a refresh that left no token
TokenHeldUnlessExpired == _token = NoToken => Expired(now, _tokenExpiration)

\* getRequest after refreshToken() has returned
AfterRefreshPc_noTokenCheck(cred) == "fetch"

AfterRefreshPc(cred) == IF cred.token = NoToken THEN "abort" ELSE "fetch"

(* ----------------------------- Initialize ------------------------------ *)
\* Initialize() up to its first await: the login request is issued
Initialize ==
  /\ initPc = "idle"
  /\ initPc' = "getToken"
  /\ event' = Quiet("Initialize")
  /\ UNCHANGED <<now, lastSet, promised, requestedMode, _emergencyHeatEnabled, _listeners, called, _lastReadFinishTimeMs, _token, _tokenExpiration, _isInitialized, _devices, deviceOrder, _lastUpdateTimeMs,
                 _nextUpdateTimeMs, _noUpdateBeforeMs, _updateTimeout, timers, _pendingThresholds,
                 reads, writes, plainCalls, writeOkAt, sentOk, modeCalled, lag, outlived>>

\* DaikinOnePlusPlatform.discover calls Initialize() until isInitialized()
InitializeCall ==
  /\ ~_isInitialized
  /\ Initialize
  /\ calls' = calls

\* the login response: getToken() returns, Initialize() goes on to getDevices()
LoginResponse(ok, accessTokenExpiresIn) ==
  /\ initPc = "getToken"
  /\ SetCred(AuthResult(Cred, ok, now, accessTokenExpiresIn))
  /\ initPc' = IF _token' = NoToken THEN "idle"
               ELSE IF GetRequestPc(now, Cred') = "refresh" THEN "getDevicesRefresh"
               ELSE "getDevices"
  /\ event' = Ev("loginResponse", "", "Initialize", IF ok THEN "true" ELSE "false",
                 FALSE, << >>, EmptyDoc)
  /\ UNCHANGED <<now, lastSet, promised, requestedMode, _emergencyHeatEnabled, _listeners, called, _lastReadFinishTimeMs, _isInitialized, _devices, deviceOrder, _lastUpdateTimeMs,
                 _nextUpdateTimeMs, _noUpdateBeforeMs, _updateTimeout, timers, _pendingThresholds,
                 reads, writes, calls, plainCalls, writeOkAt, sentOk, modeCalled, lag, outlived>>

\* getDevices() once getRequest has returned (undefined counts as the empty
\* list): the registry is replaced; with devices, Initialize() goes on to
\* getData(), whose first getRequest is started
GotDevices(list, op, ret) ==
  /\ _devices' = [d \in {list[i] : i \in 1..Len(list)} |-> NoData]
  /\ deviceOrder' = list
  /\ IF Len(list) = 0
       THEN initPc' = "idle" /\ reads' = reads /\ _lastReadFinishTimeMs' = _lastReadFinishTimeMs
       ELSE /\ initPc' = "getData"
            /\ _lastReadFinishTimeMs' = -1
            /\ reads' = Append(reads, [idx |-> 1, init |-> TRUE, list |-> list, dev |-> "",
                                       pc |-> GetRequestPc(now, Cred')])
  /\ event' = Ev(op, "", "Initialize", ret, FALSE, list, EmptyDoc)
  /\ UNCHANGED <<now, lastSet, promised, requestedMode, _emergencyHeatEnabled, _listeners, called, _isInitialized, _lastUpdateTimeMs,
                 _nextUpdateTimeMs, _noUpdateBeforeMs, _updateTimeout, timers, _pendingThresholds,
                 writes, calls, plainCalls, writeOkAt, sentOk, modeCalled, lag, outlived>>

\* the response to the token refresh that getDevices' getRequest started
DevicesRefreshResponse(ok, accessTokenExpiresIn) ==
  /\ initPc = "getDevicesRefresh"
  /\ SetCred(AuthResult(Cred, ok, now, accessTokenExpiresIn))
  /\ IF AfterRefreshPc(Cred') = "abort"
       THEN GotDevices(<< >>, "refreshResponse", "undefined")
       ELSE /\ initPc' = "getDevices"
            /\ event' = Ev("refreshResponse", "", "Initialize", IF ok THEN "true" ELSE "false",
                           FALSE, << >>, EmptyDoc)
            /\ UNCHANGED <<now, lastSet, promised, requestedMode, _emergencyHeatEnabled, _listeners, called, _lastReadFinishTimeMs, _isInitialized, _devices, deviceOrder, _lastUpdateTimeMs,
                           _nextUpdateTimeMs, _noUpdateBeforeMs, _updateTimeout, timers, _pendingThresholds,
                           reads, writes, calls, plainCalls, writeOkAt, sentOk, modeCalled, lag, outlived>>

\* the /devices response (a failed request counts as the empty list)
DevicesResponse(list) ==
  /\ initPc = "getDevices"
  /\ UNCHANGED <<_token, _tokenExpiration>>
  /\ GotDevices(list, "devicesResponse", "none")

\* the /devices response arrives with a success status and its body cannot
\* be read: the promise getRequest returned rejects, and Initialize() with it
DevicesBodyFails ==
  /\ initPc = "getDevices"
  /\ initPc' = "idle"
  /\ event' = Ev("devicesResponse", "", "Initialize", "throws", FALSE, << >>, EmptyDoc)
  /\ UNCHANGED <<now, lastSet, promised, requestedMode, _emergencyHeatEnabled, _listeners, called, _lastReadFinishTimeMs, _token, _tokenExpiration, _isInitialized, _devices, deviceOrder, _lastUpdateTimeMs,
                 _nextUpdateTimeMs, _noUpdateBeforeMs, _updateTimeout, timers, _pendingThresholds,
                 reads, writes, calls, plainCalls, writeOkAt, sentOk, modeCalled, lag, outlived>>

(* ------------------------------ read pass ------------------------------ *)
\* the timer set by _updateIn fires: getData() starts; at most maxReads
\* reads are followed at a time
TimerCallback(maxReads) ==
  /\ \E t \in timers :
       /\ now >= t
       /\ timers' = timers \ {t}
       /\ _updateTimeout' = IF t = _updateTimeout THEN NoTimer ELSE _updateTimeout
  /\ Len(reads) < maxReads
  /\ Len(deviceOrder) > 0
  /\ _lastUpdateTimeMs' = now
  /\ _lastReadFinishTimeMs' = -1
  /\ reads' = Append(reads, [idx |-> 1, init |-> FALSE, list |-> deviceOrder, dev |-> "",
                             pc |-> GetRequestPc(now, Cred)])
  /\ event' = Quiet("poll")
  /\ UNCHANGED <<now, lastSet, promised, requestedMode, _emergencyHeatEnabled, _listeners, called, _token, _tokenExpiration, _isInitialized, _devices, deviceOrder,
                 _nextUpdateTimeMs, _noUpdateBeforeMs, _pendingThresholds,
                 initPc, writes, calls, plainCalls, writeOkAt, sentOk, modeCalled, lag, outlived>>

TimerFires == TimerCallback(MaxReads)

\* notifyListeners(deviceId): every callback subscribed for the id is invoked
notifyListeners(c, listeners, deviceId) ==
  [c EXCEPT ![deviceId] = [cb \in Callbacks |->
                            IF cb \in listeners[deviceId] THEN c[deviceId][cb] + 1
                            ELSE c[deviceId][cb]]]

\* getData's loop body: the listeners of a device are notified when its
\* document was fetched
CalledAfterRead(c, listeners, d, ok) ==
  IF ok THEN notifyListeners(c, listeners, d) ELSE c

\* getData's loop body: a fetched document is merged, a failed read is
\* logged and skipped
CacheAfterRead_failureStoresEmpty(devs, d, ok, doc) ==
  IF ok THEN _updateCache(devs, d, doc) ELSE _updateCache(devs, d, EmptyDoc)

CacheAfterRead(devs, d, ok, doc) ==
  IF ok THEN _updateCache(devs, d, doc) ELSE devs

\* getData's loop body in its order: notifyListeners runs after _updateCache,
\* with no await between the two, so a callback that reads the cache of its
\* device reads the merged document
SeenByListeners_beforeMerge(devs, d, ok, doc) ==
  IF d \in DOMAIN devs THEN devs[d].data ELSE EmptyDoc

SeenByListeners(devs, d, ok, doc) ==
  LET merged == CacheAfterRead(devs, d, ok, doc)
  IN  IF d \in DOMAIN merged THEN merged[d].data ELSE EmptyDoc

\* getData once getDeviceData has returned for the device of pass i (a
\* document, or undefined when ok is false): the loop goes on to the next
\* device; after the last one the pass ends with _nextUpdateTimeMs = -1 and
\* _scheduleUpdate()
GetDataStep(i, ok, doc, op, ret) ==
  /\ LET p == reads[i]
         d == p.list[p.idx]
         last == p.idx = Len(p.list)
     IN  /\ _devices' = CacheAfterRead(_devices, d, ok, doc)
         /\ called' = CalledAfterRead(called, _listeners, d, ok)
         /\ event' = Ev(op, d, "getData", ret, FALSE,
                         IF ok THEN <<SeenByListeners(_devices, d, ok, doc)>> ELSE << >>,
                         IF ok THEN doc ELSE EmptyDoc)
         /\ sentOk' = IF ok THEN [sentOk EXCEPT ![d] = EmptyDoc] ELSE sentOk
         /\ modeCalled' = IF ok THEN modeCalled \ {d} ELSE modeCalled
         /\ IF last
              THEN /\ reads' = RemoveAt(reads, i)
                   /\ SetSched(_scheduleFuture([Sched EXCEPT !.next = -1], now, Undefined))
                   /\ _lastReadFinishTimeMs' = now
                   /\ _isInitialized' = (_isInitialized \/ p.init)
                   /\ initPc' = IF p.init THEN "idle" ELSE initPc
              ELSE /\ reads' = [reads EXCEPT ![i].idx = p.idx + 1,
                                             ![i].pc = GetRequestPc(now, Cred')]
                   /\ UNCHANGED <<_nextUpdateTimeMs, _noUpdateBeforeMs, _updateTimeout, timers,
                                  _lastReadFinishTimeMs, _isInitialized, initPc>>
  /\ lag' = IF reads' = << >> /\ writes = << >> THEN 0 ELSE lag
  /\ UNCHANGED <<now, lastSet, promised, requestedMode, _emergencyHeatEnabled, _listeners, deviceOrder, _lastUpdateTimeMs, _pendingThresholds,
                 writes, calls, plainCalls, writeOkAt, outlived>>

\* the response to getDeviceData for the device of pass i
ReadResponse(i, ok, doc) ==
  /\ i \in 1..Len(reads)
  /\ reads[i].idx > 0
  /\ reads[i].pc = "fetch"
  /\ ok => doc \in DocumentsOf(reads[i].list[reads[i].idx])
  /\ UNCHANGED <<_token, _tokenExpiration>>
  /\ GetDataStep(i, ok, doc, "readResponse", IF ok THEN "true" ELSE "false")

\* the response for the device of pass i arrives with a success status and
\* its body cannot be read: getRequest's promise rejects and getData() with
\* it.  Initialize() rejects in turn; the timer callback catches and logs.
ReadBodyFails(i) ==
  /\ i \in 1..Len(reads)
  /\ reads[i].idx > 0
  /\ reads[i].pc = "fetch"
  /\ reads' = RemoveAt(reads, i)
  /\ initPc' = IF reads[i].init THEN "idle" ELSE initPc
  /\ event' = Ev("readResponse", reads[i].list[reads[i].idx],
                 IF reads[i].init THEN "Initialize" ELSE "timer",
                 IF reads[i].init THEN "throws" ELSE "caught", FALSE, << >>, EmptyDoc)
  /\ lag' = IF reads' = << >> /\ writes = << >> THEN 0 ELSE lag
  /\ UNCHANGED <<now, lastSet, promised, requestedMode, _emergencyHeatEnabled, _listeners, called, _lastReadFinishTimeMs, _token, _tokenExpiration, _isInitialized, _devices, deviceOrder, _lastUpdateTimeMs,
                 _nextUpdateTimeMs, _noUpdateBeforeMs, _updateTimeout, timers, _pendingThresholds,
                 writes, calls, plainCalls, writeOkAt, sentOk, modeCalled, outlived>>

\* the public getDeviceData(deviceId) up to its first await
GetDeviceData(d) ==
  /\ calls < MaxCalls
  /\ calls' = calls + 1
  /\ Len(reads) < MaxReads
  /\ reads' = Append(reads, [idx |-> 0, init |-> FALSE, list |-> << >>, dev |-> d,
                             pc |-> GetRequestPc(now, Cred)])
  /\ event' = Ev("getDeviceData", d, "getDeviceData", "await", FALSE, << >>, EmptyDoc)
  /\ UNCHANGED <<now, lastSet, promised, requestedMode, _emergencyHeatEnabled, _listeners, called, _lastReadFinishTimeMs, _token, _tokenExpiration, _isInitialized, _devices, deviceOrder, _lastUpdateTimeMs,
                 _nextUpdateTimeMs, _noUpdateBeforeMs, _updateTimeout, timers, _pendingThresholds,
                 initPc, writes, plainCalls, writeOkAt, sentOk, modeCalled, lag, outlived>>

\* getDeviceData(deviceId) returns to its caller: ret is "true" for a
\* document, "undefined", or "throws" when the body could not be read
DeviceDataReturns(i, op, ret) ==
  /\ reads' = RemoveAt(reads, i)
  /\ event' = Ev(op, reads[i].dev, "getDeviceData", ret, FALSE, << >>, EmptyDoc)
  /\ lag' = IF reads' = << >> /\ writes = << >> THEN 0 ELSE lag
  /\ UNCHANGED <<now, lastSet, promised, requestedMode, _emergencyHeatEnabled, _listeners, called, _lastReadFinishTimeMs, _isInitialized, _devices, deviceOrder, _lastUpdateTimeMs,
                 _nextUpdateTimeMs, _noUpdateBeforeMs, _updateTimeout, timers, _pendingThresholds,
                 initPc, writes, calls, plainCalls, writeOkAt, sentOk, modeCalled, outlived>>

\* the response to the request of getDeviceData(deviceId)
DeviceDataResponse(i, ret) ==
  /\ i \in 1..Len(reads)
  /\ reads[i].idx = 0
  /\ reads[i].pc = "fetch"
  /\ UNCHANGED <<_token, _tokenExpiration>>
  /\ DeviceDataReturns(i, "readResponse", ret)

\* the response to the token refresh (or, without a token, to the login)
\* that the getRequest of reads[i] started
RefreshResponse(i, ok, accessTokenExpiresIn) ==
  /\ i \in 1..Len(reads)
  /\ reads[i].pc = "refresh"
  /\ SetCred(AuthResult(Cred, ok, now, accessTokenExpiresIn))
  /\ IF AfterRefreshPc(Cred') = "abort"
       THEN IF reads[i].idx = 0
              THEN DeviceDataReturns(i, "refreshResponse", "undefined")
              ELSE GetDataStep(i, FALSE, EmptyDoc, "refreshResponse", "undefined")
       ELSE /\ reads' = [reads EXCEPT ![i].pc = "fetch"]
            /\ event' = Ev("refreshResponse", IF reads[i].idx = 0 THEN reads[i].dev
                                              ELSE reads[i].list[reads[i].idx],
                           IF reads[i].idx = 0 THEN "getDeviceData" ELSE "getData",
                           IF ok THEN "true" ELSE "false", FALSE, << >>, EmptyDoc)
            /\ UNCHANGED <<now, lastSet, promised, requestedMode, _emergencyHeatEnabled, _listeners, called, _lastReadFinishTimeMs, _isInitialized, _devices, deviceOrder, _lastUpdateTimeMs,
                           _nextUpdateTimeMs, _noUpdateBeforeMs, _updateTimeout, timers, _pendingThresholds,
                           initPc, writes, calls, plainCalls, writeOkAt, sentOk, modeCalled, lag, outlived>>

(* ------------------------------ updateNow ------------------------------ *)
updateNow ==
  /\ _isInitialized
  /\ calls' = calls
  /\ plainCalls' = plainCalls
  /\ SetSched(_scheduleAsap(Sched, now, _lastUpdateTimeMs))
  /\ event' = Quiet("updateNow")
  /\ UNCHANGED <<now, requestedMode, _emergencyHeatEnabled, _listeners, called, _lastReadFinishTimeMs, _token, _tokenExpiration, _isInitialized, _devices, deviceOrder, _lastUpdateTimeMs,
                 _pendingThresholds, initPc, reads, writes, writeOkAt, sentOk, modeCalled, lag, outlived>>

UpdateNow == updateNow /\ UNCHANGED <<promised, lastSet>>

(* --------------------------- write pipeline ---------------------------- *)
\* the case of the switch on deviceData.mode that setTargetTemps takes
ModeCase_offFallsThrough(mode) ==
  IF mode = HEAT \/ mode = EMERGENCY_HEAT THEN "heat"
  ELSE IF mode = COOL \/ mode = OFF THEN "cool"
  ELSE IF mode = AUTO THEN "auto"
  ELSE "default"

ModeCase_defaultAsCool(mode) ==
  IF mode = HEAT \/ mode = EMERGENCY_HEAT THEN "heat"
  ELSE IF mode = OFF THEN "off"
  ELSE IF mode = AUTO THEN "auto"
  ELSE "cool"

ModeCase(mode) ==
  IF mode = HEAT \/ mode = EMERGENCY_HEAT THEN "heat"
  ELSE IF mode = COOL THEN "cool"
  ELSE IF mode = OFF THEN "off"
  ELSE IF mode = AUTO THEN "auto"
  ELSE "default"

\* pending after "Accumulate thresholds"
Accumulate(pending, heatThreshold, coolThreshold) ==
  [heat |-> IF heatThreshold # Undefined THEN heatThreshold ELSE pending.heat,
   cool |-> IF coolThreshold # Undefined THEN coolThreshold ELSE pending.cool]

\* "Wait until we have both thresholds before sending to API"
MustWait_either(pending) == pending.heat = Undefined /\ pending.cool = Undefined

MustWait(pending) == pending.heat = Undefined \/ pending.cool = Undefined

\* the entry of _pendingThresholds once the combined request is built
PendingAfterSend_kept(pending) == pending

PendingAfterSend(pending) == NoPending

\* schedOverride is added when the cached schedEnabled is truthy
WithOverride_never(data, update) == update

WithOverride(data, update) ==
  IF "schedEnabled" \in DOMAIN data /\ data.schedEnabled THEN Spread(update, [schedOverride |-> 1]) ELSE update

\* setTargetTemps up to the call of putRequest: what it returns without a
\* request ("true"/"false") or the request it sends ("send"), and the
\* entry it leaves in _pendingThresholds
TempsPlan(data, pending, targetTemp, heatThreshold, coolThreshold) ==
  LET case == ModeCase(Field(data, "mode"))
      acc == Accumulate(pending, heatThreshold, coolThreshold)
      Done(r, p) == [kind |-> r, api |-> EmptyDoc, cache |-> EmptyDoc, pending |-> p]
      Send(api, cache, p) ==
        [kind |-> "send", api |-> WithOverride(data, api), cache |-> WithOverride(data, cache),
         pending |-> p]
  IN  IF case = "heat"
        THEN IF Falsy(targetTemp) THEN Done("true", pending)
             ELSE Send([hspHome |-> targetTemp],
                       [hspHome |-> targetTemp, hspActive |-> targetTemp], pending)
      ELSE IF case = "cool"
        THEN IF Falsy(targetTemp) THEN Done("true", pending)
             ELSE Send([cspHome |-> targetTemp],
                       [cspHome |-> targetTemp, cspActive |-> targetTemp], pending)
      ELSE IF case = "off" THEN Done("true", pending)
      ELSE IF case = "auto"
        THEN IF ~Falsy(targetTemp) THEN Done("true", pending)
             ELSE IF MustWait(acc) THEN Done("true", acc)
             ELSE Send([hspHome |-> acc.heat, cspHome |-> acc.cool],
                       [hspHome |-> acc.heat, hspActive |-> acc.heat,
                        cspHome |-> acc.cool, cspActive |-> acc.cool],
                       PendingAfterSend(acc))
      ELSE Done("false", pending)

\* the cache once the response to a PUT has been handled: putRequest merges
\* the request on success, setTargetTemps then merges its cacheUpdate
CacheAfterWrite_always(devs, w, ok) ==
  IF w.caller = "setTargetTemps"
    THEN _updateCache(_updateCache(devs, w.dev, w.req), w.dev, w.upd)
    ELSE _updateCache(devs, w.dev, w.req)

CacheAfterWrite_noDerived(devs, w, ok) ==
  IF ~ok THEN devs ELSE _updateCache(devs, w.dev, w.req)

CacheAfterWrite(devs, w, ok) ==
  IF ~ok THEN devs
  ELSE IF w.caller = "setTargetTemps"
    THEN _updateCache(_updateCache(devs, w.dev, w.req), w.dev, w.upd)
    ELSE _updateCache(devs, w.dev, w.req)

\* the scheduler once the response to a PUT has been handled
SchedAfterWrite(s, nowMs, ok) ==
  IF ok THEN _scheduleFuture(s, nowMs, DAIKIN_DEVICE_WRITE_DELAY_MS) ELSE s

\* the cache when setTargetState calls putRequest
CacheBeforeModePut_notYet(devs, deviceId, requestedState) == devs

CacheBeforeModePut(devs, deviceId, requestedState) ==
  _updateCache(devs, deviceId, [mode |-> requestedState])

\* putRequest up to its await: without a token it returns false, otherwise
\* the PUT is issued
PutRequest(op, d, args, req, upd, devsAtCall) ==
  /\ _devices' = devsAtCall
  /\ IF _token = NoToken
       THEN /\ writes' = writes
            /\ event' = Ev(op, d, op, "false", FALSE, args, EmptyDoc)
       ELSE /\ Len(writes) < MaxInflight
            /\ writes' = Append(writes, [dev |-> d, caller |-> op, req |-> req, upd |-> upd,
                                         touched |-> devsAtCall # _devices,
                                         asked |-> args[1]])
            /\ event' = Ev(op, d, op, "await", TRUE, args, req)

\* the accessories, which call the setters, are created by discoverDevices
\* once Initialize() has made isInitialized() true
Ready == _isInitialized

Call ==
  /\ calls < MaxCalls
  /\ calls' = calls + 1

\* outlived once a setter other than setTargetTemps has run for d
Outlived(d) == IF _pendingThresholds[d] # NoPending THEN outlived \cup {d} ELSE outlived

SetTargetTemps(d, targetTemp, heatThreshold, coolThreshold) ==
  /\ Call
  /\ IF d \notin DOMAIN _devices \/ ~_devices[d].hasData
       THEN /\ event' = Ev("setTargetTemps", d, "setTargetTemps", "false", FALSE,
                           <<targetTemp, heatThreshold, coolThreshold>>, EmptyDoc)
            /\ UNCHANGED <<_devices, _pendingThresholds, writes>>
       ELSE LET plan == TempsPlan(_devices[d].data, _pendingThresholds[d],
                                  targetTemp, heatThreshold, coolThreshold)
            IN  /\ _pendingThresholds' = [_pendingThresholds EXCEPT ![d] = plan.pending]
                /\ IF plan.kind = "send"
                     THEN PutRequest("setTargetTemps", d,
                                     <<targetTemp, heatThreshold, coolThreshold>>,
                                     plan.api, plan.cache, _devices)
                     ELSE /\ event' = Ev("setTargetTemps", d, "setTargetTemps", plan.kind, FALSE,
                                         <<targetTemp, heatThreshold, coolThreshold>>, EmptyDoc)
                          /\ UNCHANGED <<_devices, writes>>
  /\ plainCalls' = plainCalls
  /\ outlived' = IF _pendingThresholds'[d] = NoPending
                       \/ (/\ d \in DOMAIN _devices
                           /\ _devices[d].hasData
                           /\ ModeCase(Field(_devices[d].data, "mode")) = "auto"
                           /\ Falsy(targetTemp)
                           /\ (heatThreshold # Undefined \/ coolThreshold # Undefined))
                    THEN outlived \ {d}
                    ELSE outlived
  /\ UNCHANGED <<now, lastSet, promised, requestedMode, _emergencyHeatEnabled, _listeners, called, _lastReadFinishTimeMs, _token, _tokenExpiration, _isInitialized, deviceOrder, _lastUpdateTimeMs,
                 _nextUpdateTimeMs, _noUpdateBeforeMs, _updateTimeout, timers,
                 initPc, reads, writeOkAt, sentOk, modeCalled, lag>>

\* setTargetState up to the await in putRequest; args is the call as the
\* model records it
ModePut(d, requestedState, args) ==
  /\ Call
  /\ PutRequest("setTargetState", d, args, [mode |-> requestedState], EmptyDoc,
                CacheBeforeModePut(_devices, d, requestedState))
  /\ modeCalled' = modeCalled \cup {d}
  /\ plainCalls' = plainCalls
  /\ outlived' = Outlived(d)
  /\ UNCHANGED <<now, lastSet, promised, _listeners, called, _lastReadFinishTimeMs, _token, _tokenExpiration, _isInitialized, deviceOrder, _lastUpdateTimeMs,
                 _nextUpdateTimeMs, _noUpdateBeforeMs, _updateTimeout, timers, _pendingThresholds,
                 initPc, reads, writeOkAt, sentOk, lag>>

SetTargetState(d, requestedState) ==
  /\ ModePut(d, requestedState, <<requestedState>>)
  /\ UNCHANGED <<_emergencyHeatEnabled, requestedMode>>

\* the setters that hand their request to putRequest as it is
Plain(op, d, args, req) ==
  /\ Call
  /\ plainCalls < MaxPlainCalls
  /\ plainCalls' = plainCalls + 1
  /\ PutRequest(op, d, args, req, EmptyDoc, _devices)
  /\ outlived' = Outlived(d)
  /\ UNCHANGED <<now, lastSet, promised, requestedMode, _emergencyHeatEnabled, _listeners, called, _lastReadFinishTimeMs, _token, _tokenExpiration, _isInitialized, deviceOrder, _lastUpdateTimeMs,
                 _nextUpdateTimeMs, _noUpdateBeforeMs, _updateTimeout, timers, _pendingThresholds,
                 initPc, reads, writeOkAt, sentOk, modeCalled, lag>>

SetOneCleanFanActive(d, requestedState) ==
  Plain("setOneCleanFanActive", d, <<requestedState>>, [oneCleanFanActive |-> requestedState])

SetCirculateAirFanActive_inverted(d, requestedState) ==
  Plain("setCirculateAirFanActive", d, <<requestedState>>,
        [fanCirculate |-> IF requestedState THEN 0 ELSE 1])

SetCirculateAirFanActive(d, requestedState) ==
  Plain("setCirculateAirFanActive", d, <<requestedState>>,
        [fanCirculate |-> IF requestedState THEN 1 ELSE 0])

SetCirculateAirFanSpeed(d, requestedSpeed) ==
  Plain("setCirculateAirFanSpeed", d, <<requestedSpeed>>,
        IF requestedSpeed = -1 THEN [fanCirculate |-> 0, fanCirculateSpeed |-> 1]
        ELSE [fanCirculateSpeed |-> requestedSpeed])

SetDisplayUnits(d, requestedUnits) ==
  Plain("setDisplayUnits", d, <<requestedUnits>>, [units |-> requestedUnits])

SetTargetHumidity(d, requestedHumidity) ==
  Plain("setTargetHumidity", d, <<requestedHumidity>>, [humSP |-> requestedHumidity])

SetScheduleState(d, requestedState) ==
  Plain("setScheduleState", d, <<requestedState>>,
        IF requestedState
          THEN [geofencingAway |-> FALSE, schedOverride |-> 0, schedEnabled |-> TRUE]
          ELSE [schedEnabled |-> FALSE])

SetAwayState(d, requestedState, enableSchedule) ==
  Plain("setAwayState", d, <<requestedState, enableSchedule>>,
        IF requestedState THEN [geofencingAway |-> TRUE]
        ELSE IF enableSchedule THEN [geofencingAway |-> FALSE, schedEnabled |-> TRUE]
        ELSE [geofencingAway |-> FALSE])

\* the response to the PUT of writes[i]: putRequest returns, and the setter with it
PutResponse(i, ok) ==
  /\ i \in 1..Len(writes)
  /\ LET w == writes[i]
     IN  /\ writes' = RemoveAt(writes, i)
         /\ _devices' = CacheAfterWrite(_devices, w, ok)
         /\ SetSched(SchedAfterWrite(Sched, now, ok))
         /\ event' = Ev("putResponse", w.dev, w.caller, IF ok THEN "true" ELSE "false",
                        FALSE, <<w.touched>>, w.req)
         /\ writeOkAt' = IF ok THEN now ELSE writeOkAt
         /\ sentOk' = IF ok THEN [sentOk EXCEPT ![w.dev] = Spread(w.req, w.upd)] ELSE sentOk
         /\ modeCalled' = IF ok THEN modeCalled \ {w.dev} ELSE modeCalled
  /\ lag' = IF reads = << >> /\ writes' = << >> THEN 0 ELSE lag
  /\ UNCHANGED <<now, requestedMode, _emergencyHeatEnabled, _listeners, called, _lastReadFinishTimeMs, _token, _tokenExpiration, _isInitialized, deviceOrder, _lastUpdateTimeMs,
                 _pendingThresholds, initPc, reads, calls, plainCalls, outlived>>

WriteResponse(i, ok) == PutResponse(i, ok) /\ UNCHANGED <<promised, lastSet>>

Next ==
  \/ Tick
  \/ InitializeCall
  \/ \E ok \in BOOLEAN : LoginResponse(ok, LongLifetimeS)
  \/ \E list \in DeviceLists : DevicesResponse(list)
  \/ TimerFires
  \/ \E i \in 1..MaxReads, doc \in Documents : ReadResponse(i, TRUE, doc)
  \/ \E i \in 1..MaxReads : ReadResponse(i, FALSE, EmptyDoc)
  \/ DevicesBodyFails
  \/ \E i \in 1..MaxReads : ReadBodyFails(i)
  \/ UpdateNow
  \/ \E d \in SetterTargets, t \in TargetInputs, h \in HeatInputs, c \in CoolInputs :
       Ready /\ SetTargetTemps(d, t, h, c)
  \/ \E d \in SetterTargets, m \in ModeInputs : Ready /\ SetTargetState(d, m)
  \/ \E d \in SetterTargets, b \in OnOffInputs : Ready /\ SetOneCleanFanActive(d, b)
  \/ \E d \in SetterTargets, b \in OnOffInputs : Ready /\ SetCirculateAirFanActive(d, b)
  \/ \E d \in SetterTargets, v \in SpeedInputs : Ready /\ SetCirculateAirFanSpeed(d, v)
  \/ \E d \in SetterTargets, u \in UnitInputs : Ready /\ SetDisplayUnits(d, u)
  \/ \E d \in SetterTargets, v \in HumidityInputs : Ready /\ SetTargetHumidity(d, v)
  \/ \E d \in SetterTargets, b \in OnOffInputs : Ready /\ SetScheduleState(d, b)
  \/ \E d \in SetterTargets, b \in OnOffInputs, e \in OnOffInputs : Ready /\ SetAwayState(d, b, e)
  \/ \E i \in 1..MaxInflight, ok \in BOOLEAN : WriteResponse(i, ok)

Spec == Init /\ [][Next]_vars

(* ------------------------- the class by itself ------------------------- *)
TokenLifetimes == {ShortLifetimeS, LongLifetimeS}

\* a second response may be outstanding while Initialize() reads
ReadSlots == 1..(MaxReads + 1)

\* what getDeviceData can return: a document, undefined, or a rejection
ReadReturns == {"true", "undefined", "throws"}

\* Initialize() called by any client, initialized or not
ApiInitialize ==
  /\ calls < MaxCalls
  /\ calls' = calls + 1
  /\ Initialize

\* any client, calling the public methods in any state
NextApi ==
  \/ Tick
  \/ ApiInitialize
  \/ \E ok \in BOOLEAN, e \in TokenLifetimes : LoginResponse(ok, e)
  \/ \E ok \in BOOLEAN, e \in TokenLifetimes : DevicesRefreshResponse(ok, e)
  \/ \E list \in DeviceLists : DevicesResponse(list)
  \/ DevicesBodyFails
  \/ TimerFires
  \/ \E i \in ReadSlots, doc \in Documents : ReadResponse(i, TRUE, doc)
  \/ \E i \in ReadSlots : ReadResponse(i, FALSE, EmptyDoc)
  \/ \E i \in ReadSlots : ReadBodyFails(i)
  \/ \E i \in ReadSlots, ok \in BOOLEAN, e \in TokenLifetimes : RefreshResponse(i, ok, e)
  \/ \E d \in SetterTargets : GetDeviceData(d)
  \/ \E i \in ReadSlots, ret \in ReadReturns : DeviceDataResponse(i, ret)
  \/ UpdateNow
  \/ \E d \in SetterTargets, b \in OnOffInputs, e \in OnOffInputs : SetAwayState(d, b, e)
  \/ \E i \in 1..MaxInflight, ok \in BOOLEAN : WriteResponse(i, ok)

SpecApi == Init /\ [][NextApi]_vars

(* -------------------- the read pass and its subscribers ---------------- *)
\* a document that lacks a field other documents carry (a device without a
\* humidifier reports no humSP)
Without(doc, fields) == [f \in (DOMAIN doc) \ fields |-> doc[f]]

PartialDocuments == {Without(Doc(COOL, FALSE), {"humSP"})}

\* addListener: the callback is invoked at once when the device has data
CalledAfterAdd_always(c, devs, deviceId, listener) ==
  [c EXCEPT ![deviceId][listener] = @ + 1]

CalledAfterAdd(c, devs, deviceId, listener) ==
  IF deviceId \in DOMAIN devs /\ devs[deviceId].hasData
    THEN [c EXCEPT ![deviceId][listener] = @ + 1]
    ELSE c

addListener(deviceId, listener) ==
  /\ Call
  /\ _listeners' = [_listeners EXCEPT ![deviceId] = @ \cup {listener}]
  /\ called' = CalledAfterAdd(called, _devices, deviceId, listener)
  /\ event' = Ev("addListener", deviceId, "", "none", FALSE, <<listener>>, EmptyDoc)
  /\ UNCHANGED <<now, lastSet, promised, requestedMode, _emergencyHeatEnabled, _lastReadFinishTimeMs, _token, _tokenExpiration, _isInitialized, _devices,
                 deviceOrder, _lastUpdateTimeMs, _nextUpdateTimeMs, _noUpdateBeforeMs, _updateTimeout,
                 timers, _pendingThresholds, initPc, reads, writes, plainCalls, writeOkAt, sentOk,
                 modeCalled, lag, outlived>>

removeListener(deviceId, listener) ==
  /\ Call
  /\ _listeners' = [_listeners EXCEPT ![deviceId] = @ \ {listener}]
  /\ event' = Ev("removeListener", deviceId, "", "none", FALSE, <<listener>>, EmptyDoc)
  /\ UNCHANGED <<now, lastSet, promised, requestedMode, _emergencyHeatEnabled, called, _lastReadFinishTimeMs, _token, _tokenExpiration, _isInitialized, _devices,
                 deviceOrder, _lastUpdateTimeMs, _nextUpdateTimeMs, _noUpdateBeforeMs, _updateTimeout,
                 timers, _pendingThresholds, initPc, reads, writes, plainCalls, writeOkAt, sentOk,
                 modeCalled, lag, outlived>>

\* the response to getDeviceData for the device of pass i carries a
\* document that lacks a field
PartialReadResponse(i, doc) ==
  /\ i \in 1..Len(reads)
  /\ reads[i].idx > 0
  /\ reads[i].pc = "fetch"
  /\ UNCHANGED <<_token, _tokenExpiration>>
  /\ GetDataStep(i, TRUE, doc, "readResponse", "true")

\* no callback has been invoked MaxInvocations times
Quota == \A d \in DeviceIds, cb \in Callbacks : called[d][cb] < MaxInvocations

\* the plugin, with the accessories subscribing and unsubscribing at any time
NextSub ==
  \/ Tick
  \/ InitializeCall
  \/ \E ok \in BOOLEAN : LoginResponse(ok, LongLifetimeS)
  \/ \E list \in DeviceLists : DevicesResponse(list)
  \/ TimerFires
  \/ \E i \in 1..MaxReads, doc \in Documents : Quota /\ ReadResponse(i, TRUE, doc)
  \/ \E i \in 1..MaxReads, doc \in PartialDocuments : Quota /\ PartialReadResponse(i, doc)
  \/ \E i \in 1..MaxReads : ReadResponse(i, FALSE, EmptyDoc)
  \/ \E i \in 1..MaxReads : ReadBodyFails(i)
  \/ UpdateNow
  \/ \E d \in DeviceIds, cb \in Callbacks : Quota /\ addListener(d, cb)
  \/ \E d \in DeviceIds, cb \in Callbacks : removeListener(d, cb)
  \/ \E d \in SetterTargets, v \in HumidityInputs : Ready /\ SetTargetHumidity(d, v)
  \/ \E i \in 1..MaxInflight, ok \in BOOLEAN : WriteResponse(i, ok)

SpecSub == Init /\ [][NextSub]_vars

(* ------------------------- background polling -------------------------- *)
\* the clock moves on to the next instant at which something happens: the
\* fire time of the pending timer, or one tick later while a response is
\* awaited
Elapse ==
  /\ _isInitialized
  /\ IF Busy
       THEN lag < MaxLagTicks /\ now' = now + TickMs /\ lag' = lag + 1
       ELSE timers # {} /\ now' = Min(timers) /\ lag' = 0
  /\ now' > now
  /\ now' <= MaxPollTimeMs
  /\ \A t \in timers : now' <= t
  /\ event' = Quiet("tick")
  /\ UNCHANGED <<lastSet, promised, requestedMode, _emergencyHeatEnabled, _listeners, called, _lastReadFinishTimeMs,
                 _token, _tokenExpiration, _isInitialized, _devices, deviceOrder, _lastUpdateTimeMs,
                 _nextUpdateTimeMs, _noUpdateBeforeMs, _updateTimeout, timers, _pendingThresholds,
                 initPc, reads, writes, calls, plainCalls, writeOkAt, sentOk, modeCalled, outlived>>

\* the answers of the network to the requests of a read pass
ReadAnswered ==
  \/ \E i \in 1..MaxReads, doc \in Documents : ReadResponse(i, TRUE, doc)
  \/ \E i \in 1..MaxReads : ReadResponse(i, FALSE, EmptyDoc)
  \/ \E i \in 1..MaxReads : ReadBodyFails(i)

\* the plugin left alone: no updateNow(), no setter is called
NextPoll ==
  \/ Elapse
  \/ InitializeCall
  \/ \E ok \in BOOLEAN : LoginResponse(ok, LongLifetimeS)
  \/ \E list \in DeviceLists : DevicesResponse(list)
  \/ TimerFires
  \/ ReadAnswered

\* time passes, a due timer fires and every request is answered
SpecPoll ==
  /\ Init
  /\ [][NextPoll]_vars
  /\ WF_vars(Elapse)
  /\ WF_vars(TimerFires)
  /\ WF_vars(ReadAnswered)

(* ------------------------ the scheduler at length ---------------------- *)
LongTick == Advance(MaxSchedTimeMs)

\* the plugin over a horizon in which several polls fit: updateNow() at any
\* time, mode writes, and read passes that complete, fail or are cut short
NextSched ==
  \/ LongTick
  \/ InitializeCall
  \/ \E ok \in BOOLEAN : LoginResponse(ok, LongLifetimeS)
  \/ \E list \in DeviceLists : DevicesResponse(list)
  \/ TimerFires
  \/ \E i \in 1..MaxReads : ReadResponse(i, TRUE, Doc(OFF, FALSE))
  \/ \E i \in 1..MaxReads : ReadResponse(i, FALSE, EmptyDoc)
  \/ \E i \in 1..MaxReads : ReadBodyFails(i)
  \/ UpdateNow
  \/ \E d \in SetterTargets : Ready /\ SetTargetState(d, OFF)
  \/ \E i \in 1..MaxInflight, ok \in BOOLEAN : WriteResponse(i, ok)

SpecSched == Init /\ [][NextSched]_vars

(* ---------------------------- slow responses --------------------------- *)
\* the clock moves on while a response is awaited for up to MaxSlowTicks ticks
SlowTick == AdvanceWhile(MaxSlowTimeMs, MaxSlowTicks)

\* the timer fires whether or not a read pass is still awaiting a response:
\* the callback of _updateIn calls getData() without looking at anything
TimerFiresAnyway == TimerCallback(MaxOverlap)

\* the plugin on a slow network: updateNow(), mode writes and read passes
\* whose responses may take longer than the foreground interval
NextSlow ==
  \/ SlowTick
  \/ InitializeCall
  \/ \E ok \in BOOLEAN : LoginResponse(ok, LongLifetimeS)
  \/ \E list \in DeviceLists : DevicesResponse(list)
  \/ TimerFiresAnyway
  \/ \E i \in 1..MaxOverlap : ReadResponse(i, TRUE, Doc(OFF, FALSE))
  \/ \E i \in 1..MaxOverlap : ReadResponse(i, FALSE, EmptyDoc)
  \/ UpdateNow
  \/ \E d \in SetterTargets : Ready /\ SetTargetState(d, OFF)
  \/ \E i \in 1..MaxInflight, ok \in BOOLEAN : WriteResponse(i, ok)

SpecSlow == Init /\ [][NextSlow]_vars

(* ----------------------- the answer to updateNow() --------------------- *)
\* the noted call has not been followed by the start of a poll (a successful
\* write takes the note away)
Unanswered ==
  /\ promised.made
  /\ _lastUpdateTimeMs = promised.last

\* updateNow(), noted with the instant of the call, the instant by which a
\* poll is due (the latest of the call, the floor _noUpdateBeforeMs and the
\* foreground interval after the last poll), and whether a read pass was in
\* flight; a call that follows an unanswered one leaves the note as it is,
\* unless that one was made during a pass and this one is not
UpdateNowNoted ==
  /\ updateNow
  /\ promised' =
       IF Unanswered /\ ~(promised.busy /\ reads = << >>)
         THEN promised
         ELSE [made |-> TRUE, at |-> now,
               due |-> Max(now, Max(_noUpdateBeforeMs,
                                    _lastUpdateTimeMs + DAIKIN_DEVICE_FOREGROUND_REFRESH_MS)),
               last |-> _lastUpdateTimeMs, busy |-> reads # << >>]
  /\ UNCHANGED lastSet

\* a write that succeeds after the noted call ends what the call promised
WriteResponseNoted(i, ok) ==
  /\ PutResponse(i, ok)
  /\ promised' = IF ok THEN NoPromise ELSE promised
  /\ UNCHANGED lastSet

\* the plugin with its updateNow() calls noted: mode writes, and read passes
\* that complete, fail or are cut short
NextNow ==
  \/ LongTick
  \/ InitializeCall
  \/ \E ok \in BOOLEAN : LoginResponse(ok, LongLifetimeS)
  \/ \E list \in DeviceLists : DevicesResponse(list)
  \/ TimerFires
  \/ \E i \in 1..MaxReads : ReadResponse(i, TRUE, Doc(OFF, FALSE))
  \/ \E i \in 1..MaxReads : ReadResponse(i, FALSE, EmptyDoc)
  \/ \E i \in 1..MaxReads : ReadBodyFails(i)
  \/ UpdateNowNoted
  \/ \E d \in SetterTargets : Ready /\ SetTargetState(d, OFF)
  \/ \E i \in 1..MaxInflight, ok \in BOOLEAN : WriteResponseNoted(i, ok)

SpecNow == Init /\ [][NextNow]_vars

(* ------------------------ a subscriber that throws -------------------- *)
\* notifyListeners when the callback `thrower` throws: the for-of loop over
\* the Set has invoked the callbacks inserted before it (`before`) and the
\* thrower itself, and ends there
notifyUntilThrow(c, deviceId, before, thrower) ==
  [c EXCEPT ![deviceId] = [cb \in Callbacks |->
                            IF cb \in before \cup {thrower} THEN c[deviceId][cb] + 1
                            ELSE c[deviceId][cb]]]

\* the document for the device of pass i arrives and is merged, and a
\* callback of the device throws when notifyListeners invokes it: nothing in
\* notifyListeners or getData catches, so getData() rejects where it stands.
\* Initialize() rejects in turn; the timer callback catches and logs.  The
\* Set is iterated in insertion order, which _listeners does not keep: any
\* subset of the other callbacks may have been inserted before the thrower.
NotifyThrows(i, doc) ==
  /\ i \in 1..Len(reads)
  /\ reads[i].idx > 0
  /\ reads[i].pc = "fetch"
  /\ LET p == reads[i]
         d == p.list[p.idx]
     IN  /\ doc \in DocumentsOf(d)
         /\ \E thrower \in _listeners[d] :
              \E before \in SUBSET (_listeners[d] \ {thrower}) :
                called' = notifyUntilThrow(called, d, before, thrower)
         /\ _devices' = CacheAfterRead(_devices, d, TRUE, doc)
         /\ sentOk' = [sentOk EXCEPT ![d] = EmptyDoc]
         /\ modeCalled' = modeCalled \ {d}
         /\ event' = Ev("notifyListeners", d, IF p.init THEN "Initialize" ELSE "timer",
                        IF p.init THEN "throws" ELSE "caught", FALSE,
                        <<SeenByListeners(_devices, d, TRUE, doc)>>, doc)
         /\ initPc' = IF p.init THEN "idle" ELSE initPc
  /\ reads' = RemoveAt(reads, i)
  /\ lag' = IF reads' = << >> /\ writes = << >> THEN 0 ELSE lag
  /\ UNCHANGED <<now, lastSet, promised, requestedMode, _emergencyHeatEnabled, _listeners, _lastReadFinishTimeMs, _token, _tokenExpiration, _isInitialized,
                 deviceOrder, _lastUpdateTimeMs, _nextUpdateTimeMs, _noUpdateBeforeMs, _updateTimeout,
                 timers, _pendingThresholds, writes, calls, plainCalls, writeOkAt, outlived>>

\* the plugin and its subscribers, one of which may throw
NextThrow ==
  \/ NextSub
  \/ \E i \in 1..MaxReads, doc \in Documents : Quota /\ NotifyThrows(i, doc)

SpecThrow == Init /\ [][NextThrow]_vars

(* ---------------------------- emergency heat -------------------------- *)
\* isEmergencyHeatEnabled(deviceId): the entry of the Map, false without one
isEmergencyHeatEnabled_never(flags, deviceId) == FALSE

isEmergencyHeatEnabled(flags, deviceId) == flags[deviceId]

\* setEmergencyHeatEnabled(deviceId, enabled), as the listener of the
\* emergency heat switch calls it on a notification, or any other client
setEmergencyHeatEnabled(deviceId, enabled) ==
  /\ Call
  /\ _emergencyHeatEnabled' = [_emergencyHeatEnabled EXCEPT ![deviceId] = enabled]
  /\ event' = Ev("setEmergencyHeatEnabled", deviceId, "", "none", FALSE, <<enabled>>, EmptyDoc)
  /\ UNCHANGED <<now, lastSet, promised, requestedMode, _listeners, called, _lastReadFinishTimeMs, _token, _tokenExpiration,
                 _isInitialized, _devices, deviceOrder, _lastUpdateTimeMs, _nextUpdateTimeMs,
                 _noUpdateBeforeMs, _updateTimeout, timers, _pendingThresholds, initPc, reads,
                 writes, plainCalls, writeOkAt, sentOk, modeCalled, lag, outlived>>

\* the set handler of the emergency heat switch: the flag is recorded first,
\* then the mode is requested
handleCurrentStateSet(deviceId, value) ==
  /\ _emergencyHeatEnabled' = [_emergencyHeatEnabled EXCEPT ![deviceId] = value]
  /\ LET m == IF value THEN EMERGENCY_HEAT ELSE HEAT
     IN  ModePut(deviceId, m, <<m>>)
  /\ UNCHANGED requestedMode

\* the states the hub can ask the thermostat for
TargetStates == {OFF, HEAT, COOL, AUTO}

\* the mode a mode-set call of the thermostat accessory requests: with the
\* flag set, the emergency variant in place of plain heat
RoutedMode(flags, deviceId, value) ==
  IF value = HEAT /\ isEmergencyHeatEnabled(flags, deviceId) THEN EMERGENCY_HEAT ELSE value

\* the set handler of the thermostat accessory for the target state; the
\* model records the routed mode and the state the hub asked for
handleTargetHeatingCoolingStateSet(deviceId, value) ==
  /\ LET m == RoutedMode(_emergencyHeatEnabled, deviceId, value)
     IN  ModePut(deviceId, m, <<m, value>>)
  /\ UNCHANGED <<_emergencyHeatEnabled, requestedMode>>

\* the plugin with the thermostat and the emergency heat switch of a device
NextHeat ==
  \/ Tick
  \/ InitializeCall
  \/ \E ok \in BOOLEAN : LoginResponse(ok, LongLifetimeS)
  \/ \E list \in DeviceLists : DevicesResponse(list)
  \/ TimerFires
  \/ \E i \in 1..MaxReads, doc \in Documents : ReadResponse(i, TRUE, doc)
  \/ \E i \in 1..MaxReads : ReadResponse(i, FALSE, EmptyDoc)
  \/ UpdateNow
  \/ \E d \in SetterTargets, b \in BOOLEAN : setEmergencyHeatEnabled(d, b)
  \/ \E d \in SetterTargets, b \in BOOLEAN : Ready /\ handleCurrentStateSet(d, b)
  \/ \E d \in SetterTargets, m \in TargetStates : Ready /\ handleTargetHeatingCoolingStateSet(d, m)
  \/ \E i \in 1..MaxInflight, ok \in BOOLEAN : WriteResponse(i, ok)

SpecHeat == Init /\ [][NextHeat]_vars

(* ------------------------ the mode and the setpoints ------------------- *)
\* setTargetState(d, requestedState), with the requested mode noted
SetTargetStateNoted(d, requestedState) ==
  /\ ModePut(d, requestedState, <<requestedState>>)
  /\ requestedMode' = [requestedMode EXCEPT ![d] = requestedState]
  /\ UNCHANGED _emergencyHeatEnabled

\* the plugin with the mode and setpoint calls of a scene, and read passes
\* in between
NextMode ==
  \/ Tick
  \/ InitializeCall
  \/ \E ok \in BOOLEAN : LoginResponse(ok, LongLifetimeS)
  \/ \E list \in DeviceLists : DevicesResponse(list)
  \/ TimerFires
  \/ \E i \in 1..MaxReads, doc \in Documents : ReadResponse(i, TRUE, doc)
  \/ \E i \in 1..MaxReads : ReadResponse(i, FALSE, EmptyDoc)
  \/ UpdateNow
  \/ \E d \in SetterTargets, m \in ModeInputs : Ready /\ SetTargetStateNoted(d, m)
  \/ \E d \in SetterTargets, t \in TargetInputs, h \in HeatInputs, c \in CoolInputs :
       Ready /\ SetTargetTemps(d, t, h, c)
  \/ \E i \in 1..MaxInflight, ok \in BOOLEAN : WriteResponse(i, ok)

SpecMode == Init /\ [][NextMode]_vars

(* ------------------------------- claims -------------------------------- *)
\* a step in which a setter is called
SetterCalled(op, d) == calls' = calls + 1 /\ event'.op = op /\ event'.dev = d

\* a step in which the response to a PUT is handled
PutAnswered(ret) == event'.op = "putResponse" /\ event'.ret = ret /\ Len(writes') = Len(writes) - 1

HasData(d) == d \in DOMAIN _devices /\ _devices[d].hasData

CachedMode(d) == Field(_devices[d].data, "mode")

KnownModes == {OFF, HEAT, COOL, AUTO, EMERGENCY_HEAT}

\* C1: once a write has succeeded at time t, no poll is scheduled for, and no
\* poll starts at, a time earlier than t + the write-settle delay.
C1_WriteSettleDelay ==
  writeOkAt # -1 =>
    /\ _updateTimeout # NoTimer => _updateTimeout >= writeOkAt + DAIKIN_DEVICE_WRITE_DELAY_MS
    /\ event.op = "poll" => now >= writeOkAt + DAIKIN_DEVICE_WRITE_DELAY_MS

\* C2: whenever the timer is armed or re-armed, its fire time is
\* _nextUpdateTimeMs and is not earlier than the _noUpdateBeforeMs floor
\* committed before the step, nor than the floor the step commits.
C2_SchedulerMonotonic ==
  [][(_updateTimeout' # NoTimer /\ _updateTimeout' # _updateTimeout) =>
       /\ _updateTimeout' = _nextUpdateTimeMs'
       /\ _nextUpdateTimeMs' >= _noUpdateBeforeMs
       /\ _nextUpdateTimeMs' >= _noUpdateBeforeMs']_vars

\* updateNow() has armed the timer at a floor that lies in the future
C2_Witness ==
  /\ event.op = "updateNow"
  /\ _updateTimeout = _noUpdateBeforeMs
  /\ _noUpdateBeforeMs > now
  /\ now - _lastUpdateTimeMs > DAIKIN_DEVICE_FOREGROUND_REFRESH_MS

\* C3: in AUTO, a setTargetTemps call with only a heat (only a cool)
\* threshold whose counterpart is not pending returns true, sends nothing and
\* keeps the value; when the counterpart is pending, the call sends exactly
\* one request, with hspHome the heat value and cspHome the cool value.
C3_AutoPairing ==
  [][\A d \in SetterTargets :
       (/\ SetterCalled("setTargetTemps", d)
        /\ HasData(d)
        /\ CachedMode(d) = AUTO
        /\ event'.args[1] = Undefined) =>
         LET h == event'.args[2]
             c == event'.args[3]
             p == _pendingThresholds[d]
             Waits(q) == /\ event'.ret = "true"
                         /\ ~event'.put
                         /\ writes' = writes
                         /\ _pendingThresholds'[d] = q
             Sends(heat, cool) == /\ event'.put
                                  /\ Len(writes') = Len(writes) + 1
                                  /\ writes'[Len(writes')].dev = d
                                  /\ writes'[Len(writes')].req.hspHome = heat
                                  /\ writes'[Len(writes')].req.cspHome = cool
         IN  /\ (h # Undefined /\ c = Undefined /\ p.cool = Undefined) =>
                  Waits([heat |-> h, cool |-> Undefined])
             /\ (h = Undefined /\ c # Undefined /\ p.heat = Undefined) =>
                  Waits([heat |-> Undefined, cool |-> c])
             /\ (h # Undefined /\ c = Undefined /\ p.cool # Undefined) => Sends(h, p.cool)
             /\ (h = Undefined /\ c # Undefined /\ p.heat # Undefined) => Sends(p.heat, c)]_vars

\* the cool threshold has arrived after a solitary heat threshold
C3_Witness ==
  /\ event.op = "setTargetTemps"
  /\ event.put
  /\ event.args = <<Undefined, Undefined, 26>>
  /\ event.req.hspHome = 21
  /\ event.req.cspHome = 26

\* C4: when the combined AUTO request is sent the accumulator of the device
\* is emptied, the answer to a request, success or failure, leaves the
\* accumulators as they are, and with an empty accumulator a setTargetTemps
\* call with at most one threshold sends nothing.
C4_PendingClearedOnSend ==
  [][/\ \A d \in SetterTargets :
          (/\ SetterCalled("setTargetTemps", d)
           /\ event'.put
           /\ HasData(d)
           /\ CachedMode(d) = AUTO) => _pendingThresholds'[d] = NoPending
     /\ \A d \in SetterTargets :
          (/\ SetterCalled("setTargetTemps", d)
           /\ HasData(d)
           /\ CachedMode(d) = AUTO
           /\ _pendingThresholds[d] = NoPending
           /\ (event'.args[2] = Undefined \/ event'.args[3] = Undefined)) => ~event'.put
     /\ (PutAnswered("true") \/ PutAnswered("false")) =>
          _pendingThresholds' = _pendingThresholds]_vars

\* the combined request has failed, and nothing is pending
C4_Witness ==
  /\ event.op = "putResponse"
  /\ event.caller = "setTargetTemps"
  /\ event.ret = "false"
  /\ {"hspHome", "cspHome"} \subseteq DOMAIN event.req
  /\ _pendingThresholds[event.dev] = NoPending

\* C5: a pending threshold does not outlive another setter call for the
\* device: once a setter other than setTargetTemps has run for a device with
\* a threshold pending, no later setTargetTemps call sends a request that
\* takes its heat or its cool value from that pending threshold.
C5_PendingDroppedByOtherWrite ==
  [][\A d \in SetterTargets :
       (/\ SetterCalled("setTargetTemps", d)
        /\ event'.put
        /\ HasData(d)
        /\ CachedMode(d) = AUTO
        /\ d \in outlived) =>
         /\ event'.args[2] # Undefined
         /\ event'.args[3] # Undefined]_vars

\* the cached value of every field of the latest successful write to d
FieldsMasked(d, exempt) ==
  \A f \in (DOMAIN sentOk[d]) \ exempt :
    /\ _devices[d].hasData
    /\ f \in DOMAIN _devices[d].data
    /\ _devices[d].data[f] = sentOk[d][f]

\* C6 as stated: after a successful write every field sent (and the derived
\* hspActive/cspActive) keeps the written value until a read of the device
\* completes or another write to it succeeds.
C6_WriteMasksStaleness ==
  \A d \in DOMAIN _devices : FieldsMasked(d, {})

\* C6 as amended: the same, except that a setTargetState call for the device
\* replaces the cached mode at once.
C6_WriteMasksStalenessButMode ==
  \A d \in DOMAIN _devices : FieldsMasked(d, IF d \in modeCalled THEN {"mode"} ELSE {})

\* a setpoint write to a registered device has succeeded
C6_Witness ==
  /\ event.op = "putResponse"
  /\ event.caller = "setTargetTemps"
  /\ event.ret = "true"
  /\ event.dev \in DOMAIN _devices
  /\ "hspActive" \in DOMAIN sentOk[event.dev]

\* handling a failed request: false is returned, nothing is sent again and
\* the cache is as it was
FailureHandled ==
  PutAnswered("false") => _devices' = _devices

\* a setter that fails before any request is sent
FailsAtOnce ==
  calls' = calls + 1 /\ event'.ret = "false" => writes' = writes /\ ~event'.put

C8_OffIsNoOp ==
  [][\A d \in SetterTargets :
       (/\ SetterCalled("setTargetTemps", d)
        /\ HasData(d)
        /\ CachedMode(d) = OFF) =>
         /\ event'.ret = "true"
         /\ ~event'.put
         /\ writes' = writes
         /\ _devices' = _devices
         /\ _pendingThresholds' = _pendingThresholds
         /\ UNCHANGED <<_nextUpdateTimeMs, _noUpdateBeforeMs, _updateTimeout, timers,
                        _lastUpdateTimeMs>>]_vars

\* setTargetTemps has been called with all three values while the mode is OFF
C8_Witness ==
  /\ event.op = "setTargetTemps"
  /\ event.args = <<22, 21, 26>>
  /\ HasData(event.dev)
  /\ CachedMode(event.dev) = OFF
  /\ event.ret = "true"

\* C9: setTargetTemps returns false and sends nothing when the cached mode
\* is none of OFF, HEAT, COOL, AUTO, EMERGENCY_HEAT, and when the device has
\* no cached state.
C9_UnknownModeFails ==
  [][\A d \in SetterTargets :
       (/\ SetterCalled("setTargetTemps", d)
        /\ (~HasData(d) \/ CachedMode(d) \notin KnownModes)) =>
         /\ event'.ret = "false"
         /\ ~event'.put
         /\ writes' = writes]_vars

\* setTargetTemps has been called with a target while the mode is unknown
C9_Witness ==
  /\ event.op = "setTargetTemps"
  /\ event.args[1] = 22
  /\ HasData(event.dev)
  /\ CachedMode(event.dev) = UNKNOWN_MODE
  /\ event.ret = "false"

\* C10: a cache update for a device id that is not in the registry (the
\* mode merge of setTargetState, the echo of a successful write) leaves the
\* registry as it is.
C10_UnknownDeviceUpdate ==
  [][\A d \in SetterTargets :
       (/\ d \notin DOMAIN _devices
        /\ event'.dev = d
        /\ (SetterCalled("setTargetState", d) \/ PutAnswered("true"))) =>
         _devices' = _devices]_vars

\* a write to a device that is not in the registry has succeeded
C10_Witness ==
  /\ event.op = "putResponse"
  /\ event.ret = "true"
  /\ event.dev \notin DOMAIN _devices
  /\ _devices # << >>

\* a step that gives a registered device its first DeviceState
StateCreated(d) ==
  /\ d \in DOMAIN _devices /\ ~_devices[d].hasData
  /\ d \in DOMAIN _devices' /\ _devices'[d].hasData

\* C11: a DeviceState is created only by a full read: the state of a
\* registered device goes from absent to present only in a step where a
\* read pass merges a fetched document, never in a setter call or in the
\* answer to a write.
C11_StateOnlyFromRead ==
  [][\A d \in DeviceIds :
       StateCreated(d) => (event'.op = "readResponse" /\ event'.ret = "true" /\ event'.dev = d)]_vars


\* getDeviceList(): the registered devices in the order of the registry
getDeviceList == deviceOrder

\* the devices of a list
Elems(list) == {list[i] : i \in 1..Len(list)}

\* the step in which Initialize() returns after its first read pass (it has
\* not completed when it is rejected)
InitializeCompletes == initPc = "getData" /\ initPc' = "idle" /\ event'.ret # "throws"

\* the step in which getDevices() stores the devices that discovery returned
Discovered == event'.op = "devicesResponse" /\ event'.ret # "throws"

\* a fetched document of d is merged in this step
ReadMerged(d) == event'.op = "readResponse" /\ event'.dev = d /\ event'.ret = "true"

\* C12 (as stated): first boot: when the login succeeds and discovery
\* returns a non-empty device set, after Initialize() completes
\* isInitialized() is true, getDeviceList() returns exactly the discovered
\* devices, and every one of them has a data snapshot.
C12_FirstBoot ==
  [][/\ Discovered => getDeviceList' = event'.args
     /\ initPc = "getData" => getDeviceList' = getDeviceList
     /\ InitializeCompletes =>
          /\ _isInitialized'
          /\ Len(getDeviceList') > 0
          /\ DOMAIN _devices' = Elems(getDeviceList')
          /\ \A d \in Elems(getDeviceList') : _devices'[d].hasData]_vars

\* C12 (amended): first boot: when the login succeeds and discovery returns
\* a non-empty device set, after Initialize() completes isInitialized() is
\* true and getDeviceList() returns exactly the discovered devices; a
\* discovered device has a data snapshot exactly if its read in the first
\* pass succeeded, and has none when that read failed.
C12_FirstBootPerRead ==
  [][/\ Discovered =>
          /\ getDeviceList' = event'.args
          /\ DOMAIN _devices' = Elems(getDeviceList')
          /\ \A d \in DOMAIN _devices' : ~_devices'[d].hasData
     /\ initPc = "getData" =>
          /\ getDeviceList' = getDeviceList
          /\ DOMAIN _devices' = DOMAIN _devices
          /\ \A d \in DOMAIN _devices : _devices'[d].hasData <=> (_devices[d].hasData \/ ReadMerged(d))
     /\ InitializeCompletes =>
          /\ _isInitialized'
          /\ Len(getDeviceList') > 0]_vars

\* Initialize() has completed with two devices, the read of one failed
C12_Witness ==
  /\ _isInitialized /\ initPc = "idle" /\ calls = 0 /\ now = 0
  /\ event.op = "readResponse"
  /\ getDeviceList = <<"d1", "d2">>
  /\ ~_devices["d1"].hasData /\ _devices["d2"].hasData


\* C13: Initialize() is an idempotent no-op once initialized: called when
\* isInitialized() is true it issues no network request (no login, device
\* list or read request of Initialize is ever outstanding) and it leaves the
\* credential, the device registry, the cache and the scheduler unchanged.
C13_InitializeIdempotent ==
  [][_isInitialized =>
       /\ initPc' = "idle"
       /\ event'.op = "Initialize" =>
            UNCHANGED <<_token, _tokenExpiration, _devices, deviceOrder, schedVars>>]_vars


\* the device-list request of getDevices() is sent in this step
ListIssued == initPc # "getDevices" /\ initPc' = "getDevices"

\* a device-read request is sent in this step
ReadIssued ==
  \E i \in 1..Len(reads') :
    /\ reads'[i].pc = "fetch"
    /\ \A j \in 1..Len(reads) : reads[j] # reads'[i]

\* a device-write request is sent in this step
WriteIssued == Len(writes') > Len(writes)

\* C14: no device-list, device-read or device-write request is ever issued
\* while the stored credential is known to be expired (current time >=
\* stored expiry): an expired credential is refreshed or re-acquired
\* successfully before the request proceeds, otherwise nothing is sent.
C14_NoRequestWhenExpired ==
  [][(ListIssued \/ ReadIssued \/ WriteIssued) => ~Expired(now', _tokenExpiration')]_vars


\* a step in which a setter is called through the public interface
AnySetterCalled == calls' = calls + 1 /\ event'.op \notin {"Initialize", "getDeviceData"}

\* C15: no device-list, device-read or device-write request is ever sent
\* without a credential: when no token is held after the refresh step the
\* read returns undefined, and a write called without a token returns
\* false, in both cases without any upstream call.
C15_NoRequestWithoutToken ==
  [][/\ (ListIssued \/ ReadIssued \/ WriteIssued) => _token' # NoToken
     /\ (event'.op = "refreshResponse" /\ _token' = NoToken) =>
          /\ event'.ret = "undefined"
          /\ ~ListIssued /\ ~ReadIssued
     /\ (AnySetterCalled /\ _token = NoToken) =>
          /\ event'.ret = "false"
          /\ ~WriteIssued]_vars

\* getDeviceData() was called without a token, the login it tried failed and
\* it returned undefined
C15_Witness ==
  /\ _token = NoToken
  /\ event.op = "refreshResponse" /\ event.caller = "getDeviceData" /\ event.ret = "undefined"
  /\ reads = << >>


\* the response to a login or to a token refresh is handled in this step
\* and it was a failure
AuthFailed == event'.op \in {"loginResponse", "refreshResponse"} /\ event'.ret # "true"

\* the getRequest of a device read starts in this step for reads'[i]
ReadStarts(i) ==
  \A j \in 1..Len(reads) :
    <<reads[j].idx, reads[j].init, reads[j].dev>> # <<reads'[i].idx, reads'[i].init, reads'[i].dev>>

\* C16: a failed login or a failed token refresh leaves the stored token and
\* the stored expiry exactly as they were, and a read request that starts
\* while the credential is expired attempts the refresh (again).
C16_FailedAuthKeepsCredential ==
  [][/\ AuthFailed => UNCHANGED <<_token, _tokenExpiration>>
     /\ \A i \in 1..Len(reads') :
          (ReadStarts(i) /\ Expired(now', _tokenExpiration')) => reads'[i].pc = "refresh"]_vars

\* a token refresh has failed: the token is still held and still expired
C16_Witness ==
  /\ event.op = "refreshResponse" /\ event.ret = "false"
  /\ _token = Token
  /\ Expired(now, _tokenExpiration)


\* C17: no exception crosses the public boundary for expected failures:
\* under any combination of login failure, refresh failure, read failure
\* and write rejection, Initialize(), getDeviceData(), updateNow() and every
\* setter complete normally, returning false or undefined, never throwing.
C17_NothingThrows ==
  [][event'.ret # "throws"]_vars


(* ---------------------- the accessors and the merge -------------------- *)
\* raw values a fetched document can carry, in and out of the valid ranges
RawModes == {OFF, COOL}
RawTemps == {-300, 150}
RawHumidities == {-5, 0, 120}
RawAirQualities == {40, 600}

\* a fetched document, reduced to the fields the accessors below read
SensorDoc(mode, temp, hum, aq, away) ==
  [mode |-> mode, tempIndoor |-> temp, tempOutdoor |-> 150, hspActive |-> 20, cspActive |-> 25,
   humIndoor |-> hum, humSP |-> 40, aqIndoorValue |-> aq, aqOutdoorValue |-> 30,
   geofencingAway |-> away]

SensorDocs ==
  {SensorDoc(m, t, h, a, w) : m \in RawModes, t \in RawTemps, h \in RawHumidities,
                              a \in RawAirQualities, w \in BOOLEAN}

\* the requests of the setters, as putRequest merges them
Echoes == {[mode |-> HEAT], [humSP |-> 45], [geofencingAway |-> TRUE]}

\* data?.f ?? dflt
OrElse(devs, deviceId, f, dflt) ==
  IF deviceId \in DOMAIN devs /\ devs[deviceId].hasData /\ f \in DOMAIN devs[deviceId].data
    THEN devs[deviceId].data[f]
    ELSE dflt

\* const data = this._devices.get(deviceId)?.data; if (!data) ...
NoDataFor(devs, deviceId) == deviceId \notin DOMAIN devs \/ ~devs[deviceId].hasData

getCurrentTemp(devs, deviceId) == OrElse(devs, deviceId, "tempIndoor", -270)

getOutdoorTemp(devs, deviceId) == OrElse(devs, deviceId, "tempOutdoor", -270)

getTargetState(devs, deviceId) == OrElse(devs, deviceId, "mode", OFF)

getTargetTemp(devs, deviceId) ==
  IF NoDataFor(devs, deviceId) THEN -270
  ELSE LET data == devs[deviceId].data
       IN  IF Field(data, "mode") \in {HEAT, EMERGENCY_HEAT, AUTO}
             THEN Field(data, "hspActive")
             ELSE Field(data, "cspActive")

getCurrentHumidity(devs, deviceId) == OrElse(devs, deviceId, "humIndoor", 0)

getTargetHumidity(devs, deviceId) == OrElse(devs, deviceId, "humSP", 0)

getAirQualityValue(devs, deviceId, forIndoor) ==
  IF NoDataFor(devs, deviceId) THEN 0
  ELSE Field(devs[deviceId].data, IF forIndoor THEN "aqIndoorValue" ELSE "aqOutdoorValue")

getAwayState(devs, deviceId) == OrElse(devs, deviceId, "geofencingAway", FALSE)

getOneCleanFanActive(devs, deviceId) == OrElse(devs, deviceId, "oneCleanFanActive", FALSE)

\* fanCirculate !== undefined && fanCirculate !== FanCirculateMode.OFF
getCirculateAirFanActive(devs, deviceId) ==
  LET fanCirculate == OrElse(devs, deviceId, "fanCirculate", Undefined)
  IN  fanCirculate # Undefined /\ fanCirculate # FanCirculateOff

getDisplayUnits(devs, deviceId) == OrElse(devs, deviceId, "units", FAHRENHEIT)

getScheduleState(devs, deviceId) ==
  IF NoDataFor(devs, deviceId) THEN FALSE
  ELSE LET data == devs[deviceId].data
       IN  /\ Field(data, "schedOverride") = 0
           /\ Field(data, "schedEnabled") = TRUE
           /\ Field(data, "geofencingAway") # TRUE

\* DaikinOnePlusHumidity.handleHumidityGet for the indoor sensor
handleHumidityGet(devs, deviceId) ==
  LET currentHumidity == getCurrentHumidity(devs, deviceId)
  IN  IF currentHumidity < 0 THEN 0
      ELSE IF currentHumidity > 100 THEN 100
      ELSE currentHumidity

\* DaikinOnePlusOutdoorTemperature.handleTemperatureGet
handleTemperatureGet(devs, deviceId) ==
  LET currentOutdoorTemp == getOutdoorTemp(devs, deviceId)
  IN  currentOutdoorTemp

Handlers == {"handleHumidityGet", "handleTemperatureGet"}

Accessors == {"getCurrentTemp", "getOutdoorTemp", "getTargetState", "getTargetTemp", "getCurrentHumidity",
              "getTargetHumidity", "getAirQualityValue", "getAwayState"}

Accessor(name, devs, deviceId) ==
  CASE name = "getCurrentTemp" -> getCurrentTemp(devs, deviceId)
    [] name = "getOutdoorTemp" -> getOutdoorTemp(devs, deviceId)
    [] name = "getTargetState" -> getTargetState(devs, deviceId)
    [] name = "getTargetTemp" -> getTargetTemp(devs, deviceId)
    [] name = "getCurrentHumidity" -> getCurrentHumidity(devs, deviceId)
    [] name = "getTargetHumidity" -> getTargetHumidity(devs, deviceId)
    [] name = "getAirQualityValue" -> getAirQualityValue(devs, deviceId, TRUE)
    [] name = "getAwayState" -> getAwayState(devs, deviceId)
    [] name = "handleHumidityGet" -> handleHumidityGet(devs, deviceId)
    [] name = "handleTemperatureGet" -> handleTemperatureGet(devs, deviceId)

\* the registry holds d1, without data or with a fetched document
InitPure ==
  /\ now = 0
  /\ _token = Token
  /\ _tokenExpiration = TokenExpiry(0, LongLifetimeS)
  /\ _isInitialized = TRUE
  /\ \E c \in {NoData} \cup {[hasData |-> TRUE, data |-> doc] : doc \in SensorDocs} :
       _devices = [d \in {"d1"} |-> c]
  /\ deviceOrder = <<"d1">>
  /\ _lastUpdateTimeMs = -1
  /\ _nextUpdateTimeMs = -1
  /\ _noUpdateBeforeMs = 0
  /\ _updateTimeout = NoTimer
  /\ timers = {}
  /\ _lastReadFinishTimeMs = -1
  /\ _listeners = [d \in DeviceIds |-> {}]
  /\ called = [d \in DeviceIds |-> [cb \in Callbacks |-> 0]]
  /\ _pendingThresholds = [d \in DeviceIds |-> NoPending]
  /\ _emergencyHeatEnabled = [d \in DeviceIds |-> FALSE]
  /\ requestedMode = [d \in DeviceIds |-> Undefined]
  /\ promised = NoPromise
  /\ lastSet = [d \in DeviceIds |-> NoSetter]
  /\ initPc = "idle"
  /\ reads = << >>
  /\ writes = << >>
  /\ calls = 0
  /\ plainCalls = 0
  /\ event = Quiet("init")
  /\ writeOkAt = -1
  /\ sentOk = [d \in DeviceIds |-> EmptyDoc]
  /\ modeCalled = {}
  /\ lag = 0
  /\ outlived = {}

\* an accessor, or the get handler of an accessory, is called for a device
Access(name, d) ==
  /\ event' = Ev(name, d, "", "none", FALSE, <<Accessor(name, _devices, d)>>, EmptyDoc)
  /\ UNCHANGED <<now, lastSet, promised, requestedMode, _emergencyHeatEnabled, _listeners, called, _lastReadFinishTimeMs, _token, _tokenExpiration, _isInitialized, _devices, deviceOrder, _lastUpdateTimeMs,
                 _nextUpdateTimeMs, _noUpdateBeforeMs, _updateTimeout, timers, _pendingThresholds,
                 initPc, reads, writes, calls, plainCalls, writeOkAt, sentOk, modeCalled, lag, outlived>>

\* _updateCache(deviceId, doc): a fetched document or the request of a write
Merge(d, doc) ==
  /\ _devices' = _updateCache(_devices, d, doc)
  /\ event' = Ev("merge", d, "", "none", FALSE, <<_devices' # _devices>>, doc)
  /\ UNCHANGED <<now, lastSet, promised, requestedMode, _emergencyHeatEnabled, _listeners, called, _lastReadFinishTimeMs, _token, _tokenExpiration, _isInitialized, deviceOrder, _lastUpdateTimeMs,
                 _nextUpdateTimeMs, _noUpdateBeforeMs, _updateTimeout, timers, _pendingThresholds,
                 initPc, reads, writes, calls, plainCalls, writeOkAt, sentOk, modeCalled, lag, outlived>>

NextPure ==
  \/ \E name \in Accessors \cup Handlers, d \in DeviceIds : Access(name, d)
  \/ \E d \in DeviceIds, doc \in SensorDocs \cup Echoes : Merge(d, doc)

SpecPure == InitPure /\ [][NextPure]_vars


\* the valid ranges, as the get handlers of the humidity, air-quality and
\* thermostat accessories enforce them
ValidRange(name) ==
  CASE name \in {"getCurrentHumidity", "getTargetHumidity"} -> [lo |-> 0, hi |-> 100]
    [] name = "getAirQualityValue" -> [lo |-> 0, hi |-> 500]
    [] name \in {"getCurrentTemp", "getOutdoorTemp"} -> [lo |-> -270, hi |-> 100]

\* the cached field an accessor with a valid range reads
RawField(name) ==
  CASE name = "getCurrentHumidity" -> "humIndoor"
    [] name = "getTargetHumidity" -> "humSP"
    [] name = "getAirQualityValue" -> "aqIndoorValue"
    [] name = "getCurrentTemp" -> "tempIndoor"
    [] name = "getOutdoorTemp" -> "tempOutdoor"

RangedAccessors ==
  {"getCurrentHumidity", "getTargetHumidity", "getAirQualityValue", "getCurrentTemp", "getOutdoorTemp"}

Clamp(v, r) == IF v < r.lo THEN r.lo ELSE IF v > r.hi THEN r.hi ELSE v

\* the accessor called in this step read a cached raw value
ReadRaw(name) ==
  /\ event'.op = name
  /\ ~NoDataFor(_devices, event'.dev)
  /\ RawField(name) \in DOMAIN _devices[event'.dev].data

\* C18: clamping: every attribute accessor with a defined valid range
\* (humidity 0..100, air-quality value 0..500, temperatures) returns the
\* cached raw value clamped to the range: the nearest boundary when the raw
\* value lies outside, never the raw value.
C18_AccessorsClamp ==
  [][\A name \in RangedAccessors :
       ReadRaw(name) =>
         event'.args[1] = Clamp(_devices[event'.dev].data[RawField(name)], ValidRange(name))]_vars

\* the clamp of the humidity characteristic is in the accessory's handler
HandlerClamps ==
  [][event'.op = "handleHumidityGet" =>
       event'.args[1] = Clamp(getCurrentHumidity(_devices, event'.dev),
                              ValidRange("getCurrentHumidity"))]_vars

\* what an accessor can return for a device that has a DeviceState
WithState(name) ==
  {Accessor(name, [d \in {"d1"} |-> [hasData |-> TRUE, data |-> doc]], "d1") : doc \in SensorDocs}

\* C19: the absence of a DeviceState is a distinct, observable state: what
\* an accessor returns for a device without state differs from every value
\* it can return for a device with state.
C19_AbsenceDistinct ==
  [][(event'.op \in Accessors /\ NoDataFor(_devices, event'.dev)) =>
       event'.args[1] \notin WithState(event'.op)]_vars

\* C20: cache merge idempotence: merging the same document into a device's
\* cache twice in a row yields the same DeviceState as merging it once.
C20_MergeIdempotent ==
  [][event'.op = "merge" =>
       _updateCache(_devices', event'.dev, event'.req) = _devices']_vars

\* a fetched document has been merged into a cache that held other values
C20_Witness ==
  /\ event.op = "merge" /\ event.dev = "d1"
  /\ event.args = <<TRUE>>
  /\ event.req \in SensorDocs
  /\ _devices["d1"].data = event.req


\* addListener(d, cb) is called in this step
Subscribes(d, cb) == event'.op = "addListener" /\ event'.dev = d /\ event'.args = <<cb>>

\* removeListener(d, cb) is called in this step
Unsubscribes(d, cb) == event'.op = "removeListener" /\ event'.dev = d /\ event'.args = <<cb>>

\* the invocations of cb for d in this step
InvokedNow(d, cb) == called'[d][cb] - called[d][cb]

\* C21: late subscriber: addListener(deviceId, cb) invokes cb exactly once,
\* at once, if and only if the device has a cached state; afterwards cb is
\* invoked once per read-driven update of the device until
\* removeListener(deviceId, cb), and never after it.
C21_LateSubscriber ==
  [][\A d \in DeviceIds, cb \in Callbacks :
       /\ Subscribes(d, cb) =>
            /\ cb \in _listeners'[d]
            /\ InvokedNow(d, cb) = IF HasData(d) THEN 1 ELSE 0
       /\ Unsubscribes(d, cb) => cb \notin _listeners'[d] /\ InvokedNow(d, cb) = 0
       /\ ~Subscribes(d, cb) /\ ~Unsubscribes(d, cb) =>
            /\ _listeners'[d] = _listeners[d]
            /\ InvokedNow(d, cb) = IF ReadMerged(d) /\ cb \in _listeners[d] THEN 1 ELSE 0]_vars

\* a late subscriber of d1 was invoked when it subscribed and again when the
\* next poll updated d1, and has unsubscribed
C21_Witness ==
  /\ event.op = "removeListener" /\ event.dev = "d1"
  /\ _listeners["d1"] = {}
  /\ called["d1"]["cb"] = 2
  /\ _lastUpdateTimeMs = now


\* a read pass completes in this step
PassCompletes == _lastReadFinishTimeMs' # _lastReadFinishTimeMs /\ _lastReadFinishTimeMs' # -1

\* a poll is started by the timer in this step
PollStarts == event'.op = "poll"

\* the instants from which another background interval fits into the horizon
EarlyTimes ==
  {t \in 0..MaxPollTimeMs :
     /\ t % TickMs = 0
     /\ t + DAIKIN_DEVICE_BACKGROUND_REFRESH_MS + MaxLagTicks * TickMs <= MaxPollTimeMs}

\* C22: background polling: when a read pass completes, the next poll is
\* armed for the background interval (180 s) after the completion, a poll
\* starts that interval after the completion of the pass before it, and with
\* no updateNow() calls and no writes polls keep recurring: at any instant
\* after the initialization a later poll is still to come.
C22_BackgroundPolling ==
  /\ [][/\ PassCompletes =>
             /\ timers' = {now' + DAIKIN_DEVICE_BACKGROUND_REFRESH_MS}
             /\ _updateTimeout' = now' + DAIKIN_DEVICE_BACKGROUND_REFRESH_MS
        /\ PollStarts => now' = _lastReadFinishTimeMs + DAIKIN_DEVICE_BACKGROUND_REFRESH_MS]_vars
  /\ \A t \in EarlyTimes :
       (_isInitialized /\ now = t) ~> (event.op = "poll" /\ now > t)


\* C23: reads fully replace: after a read pass has fetched a device, the
\* cached state of the device equals exactly the fetched document; no field
\* of the previous cached state (an optimistic write value included)
\* survives when the fetched document omits it.
C23_ReadsReplace ==
  [][\A d \in DOMAIN _devices :
       ReadMerged(d) => _devices'[d].data = event'.req]_vars


\* the cache of d after the step is its cache before the step with the
\* fields of update set, and nothing else in the registry has changed
MergedOnly(d, update) ==
  /\ DOMAIN _devices' = DOMAIN _devices
  /\ \A e \in DOMAIN _devices : e # d => _devices'[e] = _devices[e]
  /\ d \in DOMAIN _devices =>
       LET old == _devices[d].data
           new == _devices'[d].data
       IN  /\ DOMAIN new = (DOMAIN old) \cup (DOMAIN update)
           /\ \A f \in DOMAIN update : new[f] = update[f]
           /\ \A f \in (DOMAIN old) \ (DOMAIN update) : new[f] = old[f]

\* C24: writes merge, never replace: the cache update of a setter (the mode
\* at the call of setTargetState, the sent and the derived fields when a
\* request has succeeded) changes only the fields of the update and leaves
\* every other cached field of the device, and every field of every other
\* device, unchanged.
C24_WritesMerge ==
  [][/\ \A d \in SetterTargets :
          SetterCalled("setTargetState", d) => MergedOnly(d, [mode |-> event'.args[1]])
     /\ PutAnswered("true") => MergedOnly(event'.dev, sentOk'[event'.dev])]_vars

\* a setpoint write to d1 has succeeded: the sent and the derived setpoint
\* are cached, the humidity setpoint of d1 and the document of d2 are as read
C24_Witness ==
  /\ event.op = "putResponse" /\ event.ret = "true"
  /\ event.caller = "setTargetTemps" /\ event.dev = "d1"
  /\ DOMAIN _devices = {"d1", "d2"}
  /\ _devices["d2"].data = Doc(OFF, FALSE)
  /\ _devices["d1"].data.hspHome = 22 /\ _devices["d1"].data.hspActive = 22
  /\ _devices["d1"].data.humSP = 40


\* C25: minimum inter-poll spacing: whatever the interleaving of updateNow()
\* calls, writes and read completions, a poll started by the timer starts at
\* least the foreground threshold (10 s) after the poll the timer started
\* before it, and at least 10 s after the previous read pass completed.
C25_MinPollSpacing ==
  [][PollStarts =>
       /\ _lastUpdateTimeMs # -1 =>
            now' - _lastUpdateTimeMs >= DAIKIN_DEVICE_FOREGROUND_REFRESH_MS
       /\ _lastReadFinishTimeMs # -1 =>
            now' - _lastReadFinishTimeMs >= DAIKIN_DEVICE_FOREGROUND_REFRESH_MS]_vars

\* with no write at all, a poll has started at the very end of the floor
\* that the completion of the pass before it had set
C25_Witness ==
  /\ event.op = "poll"
  /\ writeOkAt = -1
  /\ now = 30000
  /\ _lastUpdateTimeMs = 30000
  /\ _noUpdateBeforeMs = 30000


\* C26: immediate-request mode: updateNow() called at time t re-arms the
\* timer to fire at max(t, _noUpdateBeforeMs, _lastUpdateTimeMs + foreground
\* threshold); in particular the timer is to fire at t when more than the
\* foreground threshold has elapsed since the last update and t is at or
\* past _noUpdateBeforeMs.
C26_ImmediateRequest ==
  [][event'.op = "updateNow" =>
       LET fire == Max(now, Max(_noUpdateBeforeMs,
                                _lastUpdateTimeMs + DAIKIN_DEVICE_FOREGROUND_REFRESH_MS))
       IN  /\ timers' = {fire}
           /\ _updateTimeout' = fire
           /\ _nextUpdateTimeMs' = fire
           /\ (/\ now - _lastUpdateTimeMs > DAIKIN_DEVICE_FOREGROUND_REFRESH_MS
               /\ now >= _noUpdateBeforeMs) => _updateTimeout' = now]_vars

\* updateNow() was called 15 s after the last poll started, past the floor:
\* the timer is to fire at once
C26_Witness ==
  /\ event.op = "updateNow"
  /\ _lastUpdateTimeMs # -1
  /\ now - _lastUpdateTimeMs = 15000
  /\ now >= _noUpdateBeforeMs
  /\ timers = {now}


\* the timer is as it was
TimerUntouched == UNCHANGED <<timers, _updateTimeout, _nextUpdateTimeMs>>

\* the timer is re-armed at a time later than the one it replaces
RearmedLater(fire) ==
  /\ timers' = {fire}
  /\ _updateTimeout' = fire
  /\ _nextUpdateTimeMs' = fire
  /\ \A t \in timers : t < fire

\* a poll is pending at or after the floor that is being set
ScheduledPast(floorMs) == timers # {} /\ \A t \in timers : t >= floorMs

\* C27 (as stated): a passive reschedule (after a read pass or a successful
\* write) never moves the scheduled poll earlier: a poll already scheduled
\* at or after now + floor delay is left untouched, otherwise the timer is
\* re-armed at now + max(floor delay, target interval), later than the time
\* it replaces.
C27_PassiveNeverEarlier ==
  [][/\ PassCompletes =>
          IF ScheduledPast(now + DAIKIN_DEVICE_FOREGROUND_REFRESH_MS)
            THEN TimerUntouched
            ELSE RearmedLater(now + DAIKIN_DEVICE_BACKGROUND_REFRESH_MS)
     /\ PutAnswered("true") =>
          IF ScheduledPast(now + DAIKIN_DEVICE_WRITE_DELAY_MS)
            THEN TimerUntouched
            ELSE RearmedLater(now + DAIKIN_DEVICE_WRITE_DELAY_MS)]_vars

\* C27 (amended): a passive reschedule never moves the scheduled poll
\* earlier: after a successful write a poll already scheduled at or after
\* now + 15 s is left untouched and otherwise the timer is re-armed at
\* now + 15 s; after a read pass the timer is re-armed at now + 180 s
\* whatever was scheduled; a re-armed timer is later than the one it
\* replaces.
C27_PassiveNeverEarlierReadRearms ==
  [][/\ PassCompletes => RearmedLater(now + DAIKIN_DEVICE_BACKGROUND_REFRESH_MS)
     /\ PutAnswered("true") =>
          IF ScheduledPast(now + DAIKIN_DEVICE_WRITE_DELAY_MS)
            THEN TimerUntouched
            ELSE RearmedLater(now + DAIKIN_DEVICE_WRITE_DELAY_MS)]_vars

\* a write has succeeded 10 s after a read pass: the poll that the pass had
\* scheduled 180 s after its completion is still the one scheduled
C27_Witness ==
  /\ event.op = "putResponse" /\ event.ret = "true"
  /\ _lastReadFinishTimeMs = now - 10000
  /\ timers = {_lastReadFinishTimeMs + DAIKIN_DEVICE_BACKGROUND_REFRESH_MS}
  /\ _noUpdateBeforeMs = now + DAIKIN_DEVICE_WRITE_DELAY_MS


\* C28: single timer: at most one scheduler timer is ever pending, the one
\* _updateTimeout stands for; every re-arm cancels the timer that was
\* pending, and a poll is only ever started by the one pending timer, never
\* by a cancelled one.
C28_SingleTimer ==
  [][/\ Cardinality(timers') <= 1
     /\ timers' \subseteq {_updateTimeout'}
     /\ \A t \in timers' \ timers : timers' = {t}
     /\ PollStarts => (timers = {_updateTimeout} /\ _updateTimeout <= now /\ timers' = {})]_vars

\* updateNow() has replaced the timer that the last read pass had set 180 s
\* after its completion, and only the new one is pending
C28_Witness ==
  /\ event.op = "updateNow"
  /\ _lastReadFinishTimeMs # -1
  /\ _updateTimeout < _lastReadFinishTimeMs + DAIKIN_DEVICE_BACKGROUND_REFRESH_MS
  /\ timers = {_updateTimeout}


\* the fetch for the device of pass i fails in this step
FetchFails(i) ==
  /\ i \in 1..Len(reads)
  /\ reads[i].idx > 0
  /\ event'.op = "readResponse"
  /\ event'.dev = reads[i].list[reads[i].idx]
  /\ event'.ret # "true"

\* pass i goes on after the response for its device: to the fetch of the
\* next device, or after the last device to its end, where the scheduler is
\* re-armed
PassGoesOn(i) ==
  IF reads[i].idx < Len(reads[i].list)
    THEN /\ Len(reads') = Len(reads)
         /\ reads'[i].idx = reads[i].idx + 1
         /\ reads'[i].list = reads[i].list
    ELSE /\ PassCompletes
         /\ timers' = {now' + DAIKIN_DEVICE_BACKGROUND_REFRESH_MS}

\* C29: per-device read failure isolation: when the fetch for one device
\* fails during a read pass, the cached state of the device is left exactly
\* as it was and its listeners are not notified, while the pass goes on with
\* every device after it, and the scheduler is re-armed at the end.
C29_ReadFailureIsolated ==
  [][\A i \in 1..MaxReads :
       FetchFails(i) =>
         /\ _devices' = _devices
         /\ called' = called
         /\ PassGoesOn(i)]_vars


\* a callback of device d runs in this step because of a read
NotifiedByRead(d) == ReadMerged(d) /\ called'[d] # called[d]

\* C30: within a read pass every listener notification for a device happens
\* after the cache merge of that device in the same pass: whenever a listener
\* runs because of a read, the cache it reads already holds the document
\* fetched for its device in that pass.
C30_NotifiedAfterMerge ==
  [][\A d \in DeviceIds :
       NotifiedByRead(d) =>
         /\ event'.args = <<_devices'[d].data>>
         /\ \A f \in DOMAIN event'.req :
              /\ f \in DOMAIN event'.args[1]
              /\ event'.args[1][f] = event'.req[f]]_vars

\* a subscribed callback has just run for a partial document (no humSP): the
\* cache it reads holds the fields of that document, and humSP from before
C30_Witness ==
  /\ event.op = "readResponse"
  /\ event.ret = "true"
  /\ event.req \in PartialDocuments
  /\ "cb" \in _listeners[event.dev]
  /\ called[event.dev]["cb"] > 0
  /\ event.args = <<_devices[event.dev].data>>
  /\ "humSP" \in DOMAIN event.args[1]


\* a callback of the device of pass i throws in this step
SubscriberThrows(i) ==
  /\ i \in 1..Len(reads)
  /\ reads[i].idx > 0
  /\ event'.op = "notifyListeners"
  /\ event'.dev = reads[i].list[reads[i].idx]

\* C31: subscriber failure isolation: if one subscriber throws while being
\* notified, every subscriber of that device is still invoked, the pass goes
\* on with the remaining devices, and it still ends by re-arming the
\* scheduler.
C31_SubscriberFailureIsolated ==
  [][\A i \in 1..MaxReads :
       SubscriberThrows(i) =>
         /\ \A cb \in _listeners[event'.dev] :
              called'[event'.dev][cb] = called[event'.dev][cb] + 1
         /\ PassGoesOn(i)]_vars


\* C32: after the upstream request of a setter has succeeded and its
\* optimistic update is merged into the cache, the listeners subscribed to
\* that device are notified in the same step, without waiting for the next
\* read pass.
C32_WriteNotifies ==
  [][\A d \in DeviceIds :
       (/\ PutAnswered("true")
        /\ event'.dev = d
        /\ d \in DOMAIN _devices
        /\ _devices'[d].data = Spread(_devices[d].data, event'.req)) =>
         \A cb \in _listeners[d] : called'[d][cb] = called[d][cb] + 1]_vars


\* the cached schedEnabled of d is true
SchedEnabled(d) == "schedEnabled" \in DOMAIN _devices[d].data /\ _devices[d].data.schedEnabled

\* C33: schedule override: every setpoint request that setTargetTemps sends
\* upstream while the cached schedEnabled of the device is true carries
\* schedOverride = 1, and on success the cached schedOverride becomes 1;
\* when schedEnabled is false the request has no schedOverride field and
\* its success leaves the cached schedOverride unchanged.
C33_ScheduleOverride ==
  [][\A d \in DeviceIds :
       /\ SetterCalled("setTargetTemps", d) /\ event'.put =>
            IF SchedEnabled(d)
              THEN "schedOverride" \in DOMAIN event'.req /\ event'.req.schedOverride = 1
              ELSE "schedOverride" \notin DOMAIN event'.req
       /\ (/\ PutAnswered("true")
           /\ event'.caller = "setTargetTemps"
           /\ event'.dev = d
           /\ d \in DOMAIN _devices) =>
            IF "schedOverride" \in DOMAIN event'.req
              THEN _devices'[d].data.schedOverride = 1
              ELSE Field(_devices'[d].data, "schedOverride") = Field(_devices[d].data, "schedOverride")]_vars

\* a setpoint write that carried the override has succeeded for a device
\* whose schedule is enabled, and the cache holds schedOverride = 1
C33_Witness ==
  /\ event.op = "putResponse"
  /\ event.caller = "setTargetTemps"
  /\ event.ret = "true"
  /\ event.req = [hspHome |-> 22, schedOverride |-> 1]
  /\ _devices[event.dev].data.schedEnabled
  /\ _devices[event.dev].data.schedOverride = 1
  /\ _devices[event.dev].data.hspActive = 22


\* the thermostat accessory was asked for HEAT for d in this step
HeatRequested(d) ==
  /\ SetterCalled("setTargetState", d)
  /\ Len(event'.args) = 2
  /\ event'.args[2] = HEAT

ValidatedAgainst(d, m) ==
  LET plan == TempsPlan(Spread(_devices[d].data, [mode |-> m]), _pendingThresholds[d],
                        event'.args[1], event'.args[2], event'.args[3])
  IN  IF plan.kind = "send"
        THEN event'.put /\ event'.req = plan.api
        ELSE ~event'.put /\ event'.ret = plan.kind

\* the response to a mode request for d arrives with a success status
ModePutSucceeds(d) ==
  PutAnswered("true") /\ event'.dev = d /\ event'.caller = "setTargetState"

\* C35: mode visibility to following commands: once setTargetState(d, m) has
\* been called for a device of the registry, every setTargetTemps(d, ...)
\* call issued afterwards, including while the mode request is still in
\* flight, is validated against mode m, for any interleaving with read
\* passes, until another setTargetState(d, ...) is called.
C35_ModeVisible ==
  [][\A d \in DeviceIds :
       (/\ SetterCalled("setTargetTemps", d)
        /\ requestedMode[d] # Undefined
        /\ HasData(d)) =>
         ValidatedAgainst(d, requestedMode[d])]_vars

\* C35 as amended: the mode of setTargetState(d, m) is in the cache when the
\* call returns to its caller, the cached mode of d then changes only when
\* setTargetState(d, ...) is called again, a read pass merges a document for
\* d or a mode request for d succeeds, and setTargetTemps(d, ...) is
\* validated against the cached mode.
C35_ModeVisibleUntilMerge ==
  [][\A d \in DeviceIds :
       (d \in DOMAIN _devices /\ _isInitialized) =>
         /\ SetterCalled("setTargetState", d) =>
              /\ _devices'[d].hasData
              /\ _devices'[d].data.mode = event'.args[1]
         /\ (/\ HasData(d)
             /\ ~SetterCalled("setTargetState", d)
             /\ ~ReadMerged(d)
             /\ ~ModePutSucceeds(d)) =>
              /\ d \in DOMAIN _devices'
              /\ Field(_devices'[d].data, "mode") = CachedMode(d)
         /\ (SetterCalled("setTargetTemps", d) /\ HasData(d)) =>
              ValidatedAgainst(d, CachedMode(d))]_vars

\* setTargetState(d, AUTO) was called and its request is still in flight; a
\* setTargetTemps call with the heat threshold alone has been validated
\* against AUTO: the threshold is pending and nothing was sent
C35_Witness ==
  /\ event.op = "setTargetTemps"
  /\ event.ret = "true"
  /\ event.args = <<Undefined, 21, Undefined>>
  /\ requestedMode[event.dev] = AUTO
  /\ Len(writes) = 1
  /\ writes[1].caller = "setTargetState"
  /\ writes[1].dev = event.dev
  /\ writes[1].req = [mode |-> AUTO]
  /\ _pendingThresholds[event.dev] = [heat |-> 21, cool |-> Undefined]

(* --------------------- a write that overtakes a read -------------------- *)
\* the plugin over a horizon in which a response can be awaited across a
\* tick of the clock: the humidity setter, updateNow() and read passes whose
\* documents carry the setpoint or lack it
NextRace ==
  \/ LongTick
  \/ InitializeCall
  \/ \E ok \in BOOLEAN : LoginResponse(ok, LongLifetimeS)
  \/ \E list \in DeviceLists : DevicesResponse(list)
  \/ TimerFires
  \/ \E i \in 1..MaxReads, doc \in Documents : ReadResponse(i, TRUE, doc)
  \/ \E i \in 1..MaxReads, doc \in PartialDocuments : PartialReadResponse(i, doc)
  \/ \E i \in 1..MaxReads : ReadResponse(i, FALSE, EmptyDoc)
  \/ UpdateNow
  \/ \E d \in SetterTargets, v \in HumidityInputs : Ready /\ SetTargetHumidity(d, v)
  \/ \E i \in 1..MaxInflight, ok \in BOOLEAN : WriteResponse(i, ok)

SpecRace == Init /\ [][NextRace]_vars

\* a write to d succeeded after the read pass in flight had started, while the
\* pass was awaiting the document of its first device, and no read of d has
\* completed since: the request of that fetch left before the write
\* succeeded (writes go to the devices of SetterTargets, one device)
StaleFetch(d) ==
  /\ sentOk[d] # EmptyDoc
  /\ writeOkAt > _lastUpdateTimeMs
  /\ reads # << >>
  /\ \A i \in 1..Len(reads) : reads[i].idx = 1 /\ reads[i].list[1] = d /\ ~reads[i].init

\* C36: a read never stomps a newer write: a read pass whose fetch for device
\* d was issued before a write to d succeeded never overwrites, on
\* completion, the fields that write merged into the cache.
C36_ReadNeverStomps ==
  [][\A d \in SetterTargets :
       (ReadMerged(d) /\ StaleFetch(d) /\ d \in DOMAIN _devices) =>
         \A f \in DOMAIN sentOk[d] : Field(_devices'[d].data, f) = Field(_devices[d].data, f)]_vars

\* C36 as amended: such a read pass does overwrite them: on completion every
\* field of that write which the fetched document carries holds the
\* document's value.
C36_StaleReadOverwrites ==
  [][\A d \in SetterTargets :
       (ReadMerged(d) /\ StaleFetch(d) /\ d \in DOMAIN _devices) =>
         \A f \in (DOMAIN sentOk[d]) \cap (DOMAIN event'.req) :
            Field(_devices'[d].data, f) = event'.req[f]]_vars

\* a humidity write to d1 succeeded while the fetch for d1 was in flight, and
\* the document of that fetch has put its own setpoint over the written one
C36_Witness ==
  /\ event.op = "readResponse"
  /\ event.ret = "true"
  /\ event.dev = "d1"
  /\ writeOkAt > _lastUpdateTimeMs
  /\ "humSP" \in DOMAIN event.req
  /\ "d1" \in DOMAIN _devices
  /\ _devices["d1"].data.humSP = event.req.humSP
  /\ event.req.humSP \notin HumidityInputs

\* C37: polling never stalls: in every reachable state after a successful
\* Initialize(), either a read pass is in flight or a scheduler timer is
\* pending (so that, with timers that fire and network calls that
\* terminate, a new read pass always eventually starts).
C37_PollingNeverStalls ==
  _isInitialized => (reads # << >> \/ timers # {})

\* the read passes in flight (a getDeviceData call of a client is not one)
PassesInFlight == {i \in 1..Len(reads) : reads[i].idx > 0}

\* C38: at most one read pass (getData) is in flight at any time: a
\* timer-triggered poll never starts while a previous read pass is still
\* awaiting its network calls, for any interleaving of updateNow() calls,
\* writes and slow responses.
C38_OnePassAtATime ==
  Cardinality(PassesInFlight) <= 1

\* C39: bounded response to updateNow(): if updateNow() is called at time t
\* and no write succeeds afterwards, a poll starts no later than
\* max(t, _noUpdateBeforeMs, _lastUpdateTimeMs + foreground threshold) as
\* evaluated at t; neither further updateNow() calls nor the completion of a
\* read pass already in flight postpone it.
C39_BoundedResponse ==
  Unanswered => now <= promised.due

\* C39 as amended: the bound holds for an updateNow() call made while no
\* read pass is in flight: until the poll starts the timer stays armed for
\* that instant or an earlier one, whatever further updateNow() calls are
\* made.  (A pass in flight at the call re-arms the timer at its completion,
\* for the background interval after it.)
C39_BoundedResponseWhenIdle ==
  (Unanswered /\ ~promised.busy) =>
    /\ now <= promised.due
    /\ timers # {}
    /\ \A t \in timers : t <= promised.due

\* updateNow() was called with no pass in flight and earlier than a poll was
\* allowed; the poll has just started, at the instant that was due
C39_Witness ==
  /\ promised.made
  /\ ~promised.busy
  /\ promised.at < promised.due
  /\ event.op = "poll"
  /\ now = promised.due
  /\ _lastUpdateTimeMs = now
  /\ _lastUpdateTimeMs # promised.last

(* ----------------------- what the getters give back -------------------- *)
\* the response to a PUT, with the setter of a request that succeeds noted
\* as the latest one of its device
WriteResponseKept(i, ok) ==
  /\ PutResponse(i, ok)
  /\ lastSet' = IF ok THEN [lastSet EXCEPT ![writes[i].dev] =
                               [caller |-> writes[i].caller, asked |-> writes[i].asked]]
                ELSE lastSet
  /\ UNCHANGED promised

\* the plugin with each setter called with either value
NextTrip ==
  \/ Tick
  \/ InitializeCall
  \/ \E ok \in BOOLEAN : LoginResponse(ok, LongLifetimeS)
  \/ \E list \in DeviceLists : DevicesResponse(list)
  \/ TimerFires
  \/ \E i \in 1..MaxReads, doc \in {Doc(AUTO, TRUE), Doc(OFF, FALSE)} : ReadResponse(i, TRUE, doc)
  \/ UpdateNow
  \/ \E d \in SetterTargets, m \in {HEAT, COOL} : Ready /\ SetTargetState(d, m)
  \/ \E d \in SetterTargets, b \in BOOLEAN : Ready /\ SetOneCleanFanActive(d, b)
  \/ \E d \in SetterTargets, b \in BOOLEAN : Ready /\ SetCirculateAirFanActive(d, b)
  \/ \E d \in SetterTargets, u \in {FAHRENHEIT, CELSIUS} : Ready /\ SetDisplayUnits(d, u)
  \/ \E d \in SetterTargets, v \in HumidityInputs : Ready /\ SetTargetHumidity(d, v)
  \/ \E d \in SetterTargets, b \in BOOLEAN : Ready /\ SetScheduleState(d, b)
  \/ \E d \in SetterTargets, b \in BOOLEAN, e \in BOOLEAN : Ready /\ SetAwayState(d, b, e)
  \/ \E i \in 1..MaxInflight, ok \in BOOLEAN : WriteResponseKept(i, ok)

SpecTrip == Init /\ [][NextTrip]_vars

\* the getter that reports what the setter sets
MatchingGetter(setter, devs, deviceId) ==
  CASE setter = "setTargetHumidity" -> getTargetHumidity(devs, deviceId)
    [] setter = "setDisplayUnits" -> getDisplayUnits(devs, deviceId)
    [] setter = "setOneCleanFanActive" -> getOneCleanFanActive(devs, deviceId)
    [] setter = "setCirculateAirFanActive" -> getCirculateAirFanActive(devs, deviceId)
    [] setter = "setAwayState" -> getAwayState(devs, deviceId)
    [] setter = "setScheduleState" -> getScheduleState(devs, deviceId)
    [] setter = "setTargetState" -> getTargetState(devs, deviceId)

RoundTripSetters ==
  {"setTargetHumidity", "setDisplayUnits", "setOneCleanFanActive", "setCirculateAirFanActive",
   "setAwayState", "setScheduleState", "setTargetState"}

\* the latest successful write to d was one of the seven setters and no read
\* of d has completed since
LatestIsSetter(d) ==
  /\ d \in DOMAIN _devices
  /\ sentOk[d] # EmptyDoc
  /\ lastSet[d].caller \in RoundTripSetters

\* C40: setter/getter round trip: after a successful setTargetHumidity,
\* setDisplayUnits, setOneCleanFanActive, setCirculateAirFanActive,
\* setAwayState, setScheduleState or setTargetState with value v (for a
\* device of the registry), the matching getter returns v until a read of
\* that device completes or another write to it succeeds.
C40_RoundTrip ==
  \A d \in DeviceIds :
    LatestIsSetter(d) => MatchingGetter(lastSet[d].caller, _devices, d) = lastSet[d].asked

\* C40 as amended: ... or, for setTargetState and getTargetState, until
\* setTargetState is called again for the device: the call puts its mode in
\* the cache before its request is answered, and the mode stays there when
\* the request fails.
C40_RoundTripUntilModeCall ==
  \A d \in DeviceIds :
    (LatestIsSetter(d) /\ ~(lastSet[d].caller = "setTargetState" /\ d \in modeCalled)) =>
      MatchingGetter(lastSet[d].caller, _devices, d) = lastSet[d].asked

\* setCirculateAirFanActive(d1, false) has just succeeded on a device whose
\* documents report the fan as circulating: the getter now reports false
C40_Witness ==
  /\ event.op = "putResponse"
  /\ event.ret = "true"
  /\ event.dev = "d1"
  /\ LatestIsSetter("d1")
  /\ lastSet["d1"] = [caller |-> "setCirculateAirFanActive", asked |-> FALSE]
  /\ _devices["d1"].data.fanCirculate = FanCirculateOff
  /\ ~getCirculateAirFanActive(_devices, "d1")

====
